---- MODULE Spec2Model ----
(***************************************************************************)
(* State-machine model of the two canisters of genun-certification:        *)
(*   - the ICRC-7 token ledger      (src/src/icrc7/src/lib.rs)              *)
(*   - the CertificationNFT facade  (src/src/genun_backend/src/lib.rs)      *)
(* Every #[update] / #[query] entry point is one action that runs the       *)
(* whole handler (the host executes one message at a time) and leaves its   *)
(* return value in `reply`; Return is the host handing that value back to   *)
(* the sender before the next message is taken.                             *)
(***************************************************************************)
EXTENDS Integers, Sequences, FiniteSets, TLC

VARIABLES
    token_map,        \* ledger: TOKEN_MAP, token id -> Token
    next_token_id,    \* ledger: COLLECTION_METADATA.next_token_id
    base_token_uri,   \* ledger: COLLECTION_METADATA.base_token_uri
    icrc7_supply_cap, \* ledger: COLLECTION_METADATA.icrc7_supply_cap
    minting_auth,     \* ledger: COLLECTION_METADATA.minting_auth
    State,            \* facade: thread-local STATE, Option<CertificationNFT>
    pending,          \* facade: pass-through calls suspended at their .await
    reply             \* the call just executed and its return value

vars ==
    <<token_map, next_token_id, base_token_uri, icrc7_supply_cap, minting_auth,
      State, pending, reply>>
ledgerVars ==
    <<token_map, next_token_id, base_token_uri, icrc7_supply_cap, minting_auth>>

(***************************************************************************)
(* Bounds of the model                                                     *)
(***************************************************************************)
\* mints are disabled once this many tokens exist
MaxTokens == 2
\* longest owners / names / descriptions / logos vector given to mint_batch
MaxBatch == 2
\* tokens already minted to p1 on the ledger whose balances are followed
MintedBefore == 3
\* most tokens on the ledgers the URI queries are run on
MaxUriTokens == 11

(***************************************************************************)
(* Values                                                                  *)
(***************************************************************************)
\* Option::None
None == "None"
\* Option<CertificationNFT>: None and Some(contract)
NoContract == <<>>
Some(contract) == <<contract>>
\* Result::Ok(v) and Result::Err(e)
Ok(v) == [ok |-> v]
Err(e) == [err |-> e]
IsOk(r) == "ok" \in DOMAIN r
IsErr(r) == "err" \in DOMAIN r

Principals == {"p1", "p2", "p3"}
Subaccounts == {None, "s1"}
\* icrc_nft_types::Account
Account(p, s) == [owner |-> p, subaccount |-> s]
\* the accounts the ledger is driven with
Accounts == {Account("p1", None), Account("p1", "s1"), Account("p2", None)}

\* the empty BTreeMap / HashMap
EmptyMap == [k \in {} |-> None]
\* BTreeMap::insert / HashMap::insert: adds the key or replaces its value
MapInsert(map, k, v) == [x \in (DOMAIN map) \cup {k} |-> IF x = k THEN v ELSE map[x]]

\* Vec of length at most n over S
SeqsUpTo(S, n) == UNION {[1..k -> S] : k \in 0..n}

(***************************************************************************)
(* Ledger: error strings                                                   *)
(***************************************************************************)
ErrBaseUriNotSet == "Base URI is not set"
ErrNonExistentToken == "NonExistentToken"
ErrInsertConflict == "Failed to insert token"
ErrLengthMismatch == "Input vector lengths do not match"
ErrTransferUnauthorized == "Unauthorized: Only the token owner can transfer the token."
ErrInvalidTransfer == "Invalid transfer: Cannot transfer to the same account."
ErrNonExistingTokenId == "NonExistingTokenId: The specified token does not exist."

(***************************************************************************)
(* Ledger: Token (state.rs is not part of the sources; modelled from the   *)
(* data model of the specification)                                        *)
(***************************************************************************)
\* Token::new(id, owner, name, logo, description)
Token_new(id, owner, name, logo, description) ==
    [id |-> id, owner |-> owner, name |-> name,
     description |-> description, logo |-> logo]

\* Token::transfer(&mut self, to): the owner becomes `to`
Token_transfer(token, to) == [token EXCEPT !.owner = to]

(***************************************************************************)
(* Ledger: pure parts of the handlers                                      *)
(***************************************************************************)
\* icrc7_total_supply: map.len()
TotalSupply(map) == Cardinality(DOMAIN map)

\* get_next_token_id with the counter advanced by two
get_next_token_id_gap(next) == [id |-> next, next |-> next + 2]

\* get_next_token_id that stores the counter back as it was
get_next_token_id_same(next) == [id |-> next, next |-> next]

\* get_next_token_id: returns the counter and stores counter + 1
get_next_token_id(next) == [id |-> next, next |-> next + 1]

\* mint that never stores the advanced counter
mint_run_stale(map, next, args) ==
    LET token == Token_new(next, args.owner, args.name, args.logo, args.description)
    IN  [map |-> MapInsert(map, next, token),
         next |-> next,
         result |-> IF next \notin DOMAIN map
                    THEN Ok(next) ELSE Err(ErrInsertConflict)]

\* mint on ledger state (map, next): the counter is advanced first, then the
\* token is inserted; BTreeMap::insert replaces an existing entry and the
\* call reports failure when it did
mint_run(map, next, args) ==
    LET alloc == get_next_token_id(next)
        new_id == alloc.id
        token == Token_new(new_id, args.owner, args.name, args.logo, args.description)
    IN  [map |-> MapInsert(map, new_id, token),
         next |-> alloc.next,
         result |-> IF new_id \notin DOMAIN map
                    THEN Ok(new_id) ELSE Err(ErrInsertConflict)]

\* Vec::last().cloned().unwrap_or(default)
LastOr(s, default) == IF Len(s) = 0 THEN default ELSE s[Len(s)]

\* Vec::resize(n, v): truncates a longer vector, pads a shorter one with v
Resize(s, n, v) ==
    IF Len(s) >= n THEN SubSeq(s, 1, n)
    ELSE s \o [i \in 1..(n - Len(s)) |-> v]

\* padding with the default value in place of the vector's last element
PadTo_default(s, n, default) == IF Len(s) # n THEN Resize(s, n, default) ELSE s

\* the padding block of mint_batch: each vector whose length differs from
\* owners.len() is resized to it with its own last element
PadTo(s, n, default) == IF Len(s) # n THEN Resize(s, n, LastOr(s, default)) ELSE s

\* the for-loop of mint_batch from index i on: mint one by one, stop at the
\* first error and return it
RECURSIVE mint_batch_loop(_, _, _, _, _, _, _, _)
mint_batch_loop(map, next, owners, names, descriptions, logos, i, token_ids) ==
    IF i > Len(owners) THEN [map |-> map, next |-> next, result |-> Ok(token_ids)]
    ELSE LET r == mint_run(map, next, [owner |-> owners[i], name |-> names[i],
                                       description |-> descriptions[i],
                                       logo |-> logos[i]])
         IN  IF IsOk(r.result)
             THEN mint_batch_loop(r.map, r.next, owners, names, descriptions, logos,
                                  i + 1, Append(token_ids, r.result.ok))
             ELSE [map |-> r.map, next |-> r.next, result |-> r.result]

\* mint_batch on ledger state (map, next)
mint_batch_run(map, next, args) ==
    LET owners_len == Len(args.owners)
        names == PadTo(args.names, owners_len, "")
        descriptions == PadTo(args.descriptions, owners_len, None)
        logos == PadTo(args.logos, owners_len, None)
    IN  IF \/ owners_len # Len(names)
           \/ owners_len # Len(descriptions)
           \/ owners_len # Len(logos)
        THEN [map |-> map, next |-> next, result |-> Err(ErrLengthMismatch)]
        ELSE mint_batch_loop(map, next, args.owners, names, descriptions, logos,
                             1, <<>>)

\* transfer_one comparing the principals only, not the subaccount
transfer_one_no_subaccount(map, caller, arg) ==
    IF arg.token_id \notin DOMAIN map
    THEN [map |-> map, result |-> Err(ErrNonExistingTokenId)]
    ELSE LET token == map[arg.token_id] IN
         IF token.owner.owner # caller.owner
         THEN [map |-> map, result |-> Err(ErrTransferUnauthorized)]
         ELSE IF token.owner = arg.to
         THEN [map |-> map, result |-> Err(ErrInvalidTransfer)]
         ELSE [map |-> MapInsert(map, token.id, Token_transfer(token, arg.to)),
               result |-> Ok(token.id)]

\* transfer_one without the self-transfer check
transfer_one_no_self_check(map, caller, arg) ==
    IF arg.token_id \notin DOMAIN map
    THEN [map |-> map, result |-> Err(ErrNonExistingTokenId)]
    ELSE LET token == map[arg.token_id] IN
         IF \/ token.owner.owner # caller.owner
            \/ token.owner.subaccount # arg.from_subaccount
         THEN [map |-> map, result |-> Err(ErrTransferUnauthorized)]
         ELSE [map |-> MapInsert(map, token.id, Token_transfer(token, arg.to)),
               result |-> Ok(token.id)]

\* transfer_one with the self-transfer check ahead of the ownership check
transfer_one_self_first(map, caller, arg) ==
    IF arg.token_id \notin DOMAIN map
    THEN [map |-> map, result |-> Err(ErrNonExistingTokenId)]
    ELSE LET token == map[arg.token_id] IN
         IF token.owner = arg.to
         THEN [map |-> map, result |-> Err(ErrInvalidTransfer)]
         ELSE IF \/ token.owner.owner # caller.owner
                 \/ token.owner.subaccount # arg.from_subaccount
         THEN [map |-> map, result |-> Err(ErrTransferUnauthorized)]
         ELSE [map |-> MapInsert(map, token.id, Token_transfer(token, arg.to)),
               result |-> Ok(token.id)]

\* transfer_one whose ownership check reports the error but does not skip
\* the update (the `continue` is missing)
transfer_one_no_continue(map, caller, arg) ==
    IF arg.token_id \notin DOMAIN map
    THEN [map |-> map, result |-> Err(ErrNonExistingTokenId)]
    ELSE LET token == map[arg.token_id] IN
         IF \/ token.owner.owner # caller.owner
            \/ token.owner.subaccount # arg.from_subaccount
         THEN [map |-> MapInsert(map, token.id, Token_transfer(token, arg.to)),
               result |-> Err(ErrTransferUnauthorized)]
         ELSE IF token.owner = arg.to
         THEN [map |-> map, result |-> Err(ErrInvalidTransfer)]
         ELSE [map |-> MapInsert(map, token.id, Token_transfer(token, arg.to)),
               result |-> Ok(token.id)]

\* one iteration of the loop of icrc7_transfer: existence, then ownership
\* (token owner's principal against caller.owner, token owner's subaccount
\* against arg.from_subaccount), then self-transfer, then the update
transfer_one(map, caller, arg) ==
    IF arg.token_id \notin DOMAIN map
    THEN [map |-> map, result |-> Err(ErrNonExistingTokenId)]
    ELSE LET token == map[arg.token_id] IN
         IF \/ token.owner.owner # caller.owner
            \/ token.owner.subaccount # arg.from_subaccount
         THEN [map |-> map, result |-> Err(ErrTransferUnauthorized)]
         ELSE IF token.owner = arg.to
         THEN [map |-> map, result |-> Err(ErrInvalidTransfer)]
         ELSE [map |-> MapInsert(map, token.id, Token_transfer(token, arg.to)),
               result |-> Ok(token.id)]

\* icrc7_transfer that, like mint_batch, stops at the first failing element
RECURSIVE icrc7_transfer_run_abort(_, _, _, _, _)
icrc7_transfer_run_abort(map, caller, args, i, results) ==
    IF i > Len(args) THEN [map |-> map, results |-> results]
    ELSE LET r == transfer_one(map, caller, args[i])
         IN  IF IsErr(r.result)
             THEN [map |-> r.map, results |-> Append(results, r.result)]
             ELSE icrc7_transfer_run_abort(r.map, caller, args, i + 1,
                                           Append(results, r.result))

\* icrc7_transfer on the token map: the elements are taken in input order,
\* each against the map the elements before it left
RECURSIVE icrc7_transfer_run(_, _, _, _, _)
icrc7_transfer_run(map, caller, args, i, results) ==
    IF i > Len(args) THEN [map |-> map, results |-> results]
    ELSE LET r == transfer_one(map, caller, args[i])
         IN  icrc7_transfer_run(r.map, caller, args, i + 1, Append(results, r.result))

\* the token map after the first k elements of args
MapAfter(map, caller, args, k) ==
    icrc7_transfer_run(map, caller, SubSeq(args, 1, k), 1, <<>>).map

\* base_uri
base_uri_run(uri) == IF uri = "" THEN Err(ErrBaseUriNotSet) ELSE Ok(uri)

\* format!("{}{}", base_token_uri, token_id): the id in decimal after the base
DecimalDigits == <<"0", "1", "2", "3", "4", "5", "6", "7", "8", "9">>
RECURSIVE ToDecimal(_)
ToDecimal(n) ==
    IF n < 10 THEN DecimalDigits[n + 1]
    ELSE ToDecimal(n \div 10) \o DecimalDigits[(n % 10) + 1]
FormatUri(uri, token_id) == uri \o ToDecimal(token_id)

\* token_uri that looks at the base URI before it looks for the token
token_uri_run_base_first(map, uri, token_id) ==
    IF uri = "" THEN Ok("")
    ELSE IF token_id \notin DOMAIN map THEN Err(ErrNonExistentToken)
    ELSE Ok(FormatUri(uri, token_id))

\* token_uri
token_uri_run(map, uri, token_id) ==
    IF token_id \notin DOMAIN map THEN Err(ErrNonExistentToken)
    ELSE IF uri = "" THEN Ok("")
    ELSE Ok(FormatUri(uri, token_id))

\* icrc7_owner_of
icrc7_owner_of_run(map, token_ids) ==
    [i \in 1..Len(token_ids) |->
        IF token_ids[i] \in DOMAIN map THEN map[token_ids[i]].owner ELSE None]

\* icrc7_balance_of comparing the principals only, not the subaccounts
icrc7_balance_of_run_principal(map, accounts) ==
    [i \in 1..Len(accounts) |->
        Cardinality({k \in DOMAIN map : map[k].owner.owner = accounts[i].owner})]

\* icrc7_balance_of
icrc7_balance_of_run(map, accounts) ==
    [i \in 1..Len(accounts) |->
        Cardinality({k \in DOMAIN map : map[k].owner = accounts[i]})]

(***************************************************************************)
(* Inputs the ledger is driven with                                        *)
(***************************************************************************)
\* token ids asked for; 0 is never assigned
TokenIds == 0..MaxTokens
\* (name, description, logo) of minted tokens
Metas == {<<"x", None, None>>, <<"y", "d", "l">>}
MintArgsSet ==
    {[owner |-> a, name |-> m[1], description |-> m[2], logo |-> m[3]] :
        a \in Accounts, m \in Metas}
MintBatchArgsSet ==
    {[owners |-> o, names |-> <<m[1]>>,
      descriptions |-> IF m[2] = None THEN <<>> ELSE <<m[2]>>,
      logos |-> IF m[3] = None THEN <<>> ELSE <<m[3]>>] :
        o \in SeqsUpTo(Accounts, MaxBatch), m \in Metas}
\* icrc_nft_types TransferArg (memo and created_at_time are never read)
TransferArgSet ==
    {[token_id |-> t, from_subaccount |-> s, to |-> a] :
        t \in TokenIds, s \in Subaccounts, a \in Accounts}
\* argument vectors of icrc7_transfer: none, one or two elements
TransferArgLists ==
    {<<>>} \cup {<<a>> : a \in TransferArgSet}
           \cup {<<a, b>> : a \in TransferArgSet, b \in TransferArgSet}
Uris == {"", "u"}

(***************************************************************************)
(* Ledger: actions                                                         *)
(***************************************************************************)
NoReply == [op |-> "none"]
Idle == reply = NoReply

\* #[update] mint
mint(args) ==
    /\ next_token_id <= MaxTokens
    /\ LET r == mint_run(token_map, next_token_id, args) IN
        /\ token_map' = r.map
        /\ next_token_id' = r.next
        /\ reply' = [op |-> "mint", args |-> args, result |-> r.result]
    /\ UNCHANGED <<base_token_uri, icrc7_supply_cap, minting_auth, State, pending>>

\* #[update] mint_batch
mint_batch(args) ==
    /\ next_token_id + Len(args.owners) <= MaxTokens + 1
    /\ LET r == mint_batch_run(token_map, next_token_id, args) IN
        /\ token_map' = r.map
        /\ next_token_id' = r.next
        /\ reply' = [op |-> "mint_batch", args |-> args, result |-> r.result]
    /\ UNCHANGED <<base_token_uri, icrc7_supply_cap, minting_auth, State, pending>>

\* #[update] icrc7_transfer
icrc7_transfer(caller, args) ==
    /\ LET r == icrc7_transfer_run(token_map, caller, args, 1, <<>>) IN
        /\ token_map' = r.map
        /\ reply' = [op |-> "icrc7_transfer", caller |-> caller, args |-> args,
                     result |-> r.results]
    /\ UNCHANGED <<next_token_id, base_token_uri, icrc7_supply_cap, minting_auth,
                   State, pending>>

\* set_base_uri that leaves a stored URI alone when given the empty string
set_base_uri_keep(uri) ==
    /\ base_token_uri' = (IF uri = "" THEN base_token_uri ELSE uri)
    /\ reply' = [op |-> "set_base_uri", args |-> uri, result |-> Ok(<<>>)]
    /\ UNCHANGED <<token_map, next_token_id, icrc7_supply_cap, minting_auth,
                   State, pending>>

\* #[update] set_base_uri
set_base_uri(uri) ==
    /\ base_token_uri' = uri
    /\ reply' = [op |-> "set_base_uri", args |-> uri, result |-> Ok(<<>>)]
    /\ UNCHANGED <<token_map, next_token_id, icrc7_supply_cap, minting_auth,
                   State, pending>>

\* #[query] base_uri
base_uri ==
    /\ reply' = [op |-> "base_uri", result |-> base_uri_run(base_token_uri)]
    /\ UNCHANGED <<ledgerVars, State, pending>>

\* #[query] token_uri
token_uri(token_id) ==
    /\ reply' = [op |-> "token_uri", args |-> token_id,
                 result |-> token_uri_run(token_map, base_token_uri, token_id)]
    /\ UNCHANGED <<ledgerVars, State, pending>>

\* #[query] icrc7_total_supply
icrc7_total_supply ==
    /\ reply' = [op |-> "icrc7_total_supply", result |-> TotalSupply(token_map)]
    /\ UNCHANGED <<ledgerVars, State, pending>>

\* #[query] icrc7_owner_of
icrc7_owner_of(token_ids) ==
    /\ reply' = [op |-> "icrc7_owner_of", args |-> token_ids,
                 result |-> icrc7_owner_of_run(token_map, token_ids)]
    /\ UNCHANGED <<ledgerVars, State, pending>>

\* #[query] icrc7_balance_of
icrc7_balance_of(accounts) ==
    /\ reply' = [op |-> "icrc7_balance_of", args |-> accounts,
                 result |-> icrc7_balance_of_run(token_map, accounts)]
    /\ UNCHANGED <<ledgerVars, State, pending>>

\* the return value of the handler goes back to the sender
Return ==
    /\ ~Idle
    /\ reply' = NoReply
    /\ UNCHANGED <<ledgerVars, State, pending>>

(***************************************************************************)
(* Ledger: specification                                                   *)
(***************************************************************************)
\* #[init] of the ledger: empty token map, next_token_id = 1, empty base URI;
\* the facade is not installed
InitLedger ==
    /\ token_map = EmptyMap
    /\ next_token_id = 1
    /\ base_token_uri = ""
    /\ icrc7_supply_cap = <<>>
    /\ minting_auth = <<>>
    /\ State = NoContract
    /\ pending = {}
    /\ reply = NoReply

\* the calls the ledger receives: a message is taken when the previous one has
\* been answered
LedgerMint == Idle /\ \E args \in MintArgsSet : mint(args)
LedgerMintBatch == Idle /\ \E args \in MintBatchArgsSet : mint_batch(args)
LedgerTransfer ==
    Idle /\ \E caller \in Accounts, args \in TransferArgLists : icrc7_transfer(caller, args)
LedgerSetBaseUri == Idle /\ \E uri \in Uris : set_base_uri(uri)
LedgerBaseUri == Idle /\ base_uri
LedgerTokenUri == Idle /\ \E token_id \in TokenIds : token_uri(token_id)
LedgerTotalSupply == Idle /\ icrc7_total_supply
LedgerOwnerOf == Idle /\ \E token_id \in TokenIds : icrc7_owner_of(<<token_id>>)
LedgerBalanceOf == Idle /\ \E a \in Accounts : icrc7_balance_of(<<a>>)

NextLedger ==
    \/ LedgerMint
    \/ LedgerMintBatch
    \/ LedgerTransfer
    \/ LedgerSetBaseUri
    \/ LedgerBaseUri
    \/ LedgerTokenUri
    \/ LedgerTotalSupply
    \/ LedgerOwnerOf
    \/ LedgerBalanceOf
    \/ Return

SpecLedger == InitLedger /\ [][NextLedger]_vars

(***************************************************************************)
(* Ledger: mint_batch driven with vectors of every relative length         *)
(***************************************************************************)
BatchOwners ==
    {<<>>, <<Account("p1", None)>>, <<Account("p2", None)>>,
     <<Account("p1", None), Account("p2", None)>>,
     <<Account("p2", None), Account("p2", None), Account("p1", None)>>}
BatchNames == {<<>>, <<"x">>, <<"x", "y">>}
BatchDescriptions == {<<>>, <<"d">>, <<None, "d">>}
BatchLogos == {<<>>, <<"l">>, <<"l", None>>}
BatchArgsSet ==
    {[owners |-> o, names |-> n, descriptions |-> d, logos |-> l] :
        o \in BatchOwners, n \in BatchNames, d \in BatchDescriptions,
        l \in BatchLogos}

BatchMintBatch == Idle /\ \E args \in BatchArgsSet : mint_batch(args)

NextBatch ==
    \/ BatchMintBatch
    \/ Return

SpecBatch == InitLedger /\ [][NextBatch]_vars

(***************************************************************************)
(* Ledger: the URI queries on ledgers of every size up to MaxUriTokens     *)
(***************************************************************************)
\* the ledger after n mints to p1
MintedLedger(n) ==
    [k \in 1..n |-> Token_new(k, Account("p1", None), "x", None, None)]
UriInputs == {"", "u", "https://x/"}

\* a ledger on which some number of tokens has been minted and no base URI set
InitUri ==
    /\ \E n \in 0..MaxUriTokens :
         /\ token_map = MintedLedger(n)
         /\ next_token_id = n + 1
    /\ base_token_uri = ""
    /\ icrc7_supply_cap = <<>>
    /\ minting_auth = <<>>
    /\ State = NoContract
    /\ pending = {}
    /\ reply = NoReply

UriSetBaseUri == Idle /\ \E uri \in UriInputs : set_base_uri(uri)
UriBaseUri == Idle /\ base_uri
UriTokenUri == Idle /\ \E token_id \in 0..(MaxUriTokens + 1) : token_uri(token_id)

NextUri ==
    \/ UriSetBaseUri
    \/ UriBaseUri
    \/ UriTokenUri
    \/ Return

SpecUri == InitUri /\ [][NextUri]_vars

(***************************************************************************)
(* Ledger: balances, on the fresh ledger and on one with MintedBefore      *)
(* tokens of p1                                                            *)
(***************************************************************************)
InitBalance ==
    /\ \E n \in {0, MintedBefore} :
         /\ token_map = MintedLedger(n)
         /\ next_token_id = n + 1
    /\ base_token_uri = ""
    /\ icrc7_supply_cap = <<>>
    /\ minting_auth = <<>>
    /\ State = NoContract
    /\ pending = {}
    /\ reply = NoReply

BalanceTransferArgs ==
    {[token_id |-> t, from_subaccount |-> s, to |-> a] :
        t \in 1..MintedBefore, s \in Subaccounts, a \in Accounts}
BalanceQueries ==
    {<<a>> : a \in Accounts} \cup {<<a, b>> : a \in Accounts, b \in Accounts}

BalanceMint == Idle /\ \E args \in MintArgsSet : mint(args)
BalanceTransfer ==
    Idle /\ \E caller \in Accounts, arg \in BalanceTransferArgs :
        icrc7_transfer(caller, <<arg>>)
BalanceBalanceOf == Idle /\ \E accounts \in BalanceQueries : icrc7_balance_of(accounts)
BalanceTotalSupply == Idle /\ icrc7_total_supply

NextBalance ==
    \/ BalanceMint
    \/ BalanceTransfer
    \/ BalanceBalanceOf
    \/ BalanceTotalSupply
    \/ Return

SpecBalance == InitBalance /\ [][NextBalance]_vars

(***************************************************************************)
(* Facade: error strings and values                                        *)
(***************************************************************************)
ErrNotInitialized == "Contract not initialized"
ErrUnauthorizedGrantManager == "UnauthorizedGrantManager"
ErrAlreadyManager == "Error: Already a manager"
ErrUnauthorizedRevokeManager == "UnauthorizedRevokeManager"
ErrCannotRevokeOwner == "CannotRevokeOwnerFromManager"
ErrInvalidRevokeManager == "InvalidRevokeManager"
\* Principal::anonymous()
Anonymous == "anonymous"

\* a CertificationNFT built without the owner's entry in is_manager
NewContract_no_manager(caller) ==
    [owner |-> caller,
     is_manager |-> EmptyMap,
     token_owner |-> EmptyMap,
     owned_tokens |-> EmptyMap,
     tokens |-> EmptyMap,
     next_token_id |-> 1]

\* the CertificationNFT that init builds for `caller`; token_owner,
\* owned_tokens, tokens and next_token_id are never read or written again
NewContract(caller) ==
    [owner |-> caller,
     is_manager |-> MapInsert(EmptyMap, caller, TRUE),
     token_owner |-> EmptyMap,
     owned_tokens |-> EmptyMap,
     tokens |-> EmptyMap,
     next_token_id |-> 1]

\* STATE holds Some(contract), and that contract
Initialized == State # NoContract
Contract == State[1]

\* is_manager.get(&p).copied().unwrap_or(false)
Flag(is_manager, p) == IF p \in DOMAIN is_manager THEN is_manager[p] ELSE FALSE

(***************************************************************************)
(* Facade: methods of CertificationNFT                                     *)
(***************************************************************************)
\* grant_manager with a presence test in place of the test for Some(true)
grant_manager_contains_key(contract, caller, manager) ==
    IF contract.owner # caller
    THEN [contract |-> contract, result |-> Err(ErrUnauthorizedGrantManager)]
    ELSE IF manager \in DOMAIN contract.is_manager
    THEN [contract |-> contract, result |-> Err(ErrAlreadyManager)]
    ELSE [contract |-> [contract EXCEPT !.is_manager = MapInsert(@, manager, TRUE)],
          result |-> Ok(<<>>)]

\* CertificationNFT::grant_manager, `caller` being ic_cdk::caller()
grant_manager(contract, caller, manager) ==
    IF contract.owner # caller
    THEN [contract |-> contract, result |-> Err(ErrUnauthorizedGrantManager)]
    ELSE IF manager \in DOMAIN contract.is_manager /\ contract.is_manager[manager] = TRUE
    THEN [contract |-> contract, result |-> Err(ErrAlreadyManager)]
    ELSE [contract |-> [contract EXCEPT !.is_manager = MapInsert(@, manager, TRUE)],
          result |-> Ok(<<>>)]

\* revoke_manager without the test that protects the owner
revoke_manager_no_owner_check(contract, caller, manager) ==
    IF contract.owner # caller
    THEN [contract |-> contract, result |-> Err(ErrUnauthorizedRevokeManager)]
    ELSE IF \/ manager \notin DOMAIN contract.is_manager
            \/ ~contract.is_manager[manager]
    THEN [contract |-> contract, result |-> Err(ErrInvalidRevokeManager)]
    ELSE [contract |-> [contract EXCEPT !.is_manager = MapInsert(@, manager, FALSE)],
          result |-> Ok(<<>>)]

\* revoke_manager with a presence test only: the flag is not looked at
revoke_manager_contains_key(contract, caller, manager) ==
    IF contract.owner # caller
    THEN [contract |-> contract, result |-> Err(ErrUnauthorizedRevokeManager)]
    ELSE IF contract.owner = manager
    THEN [contract |-> contract, result |-> Err(ErrCannotRevokeOwner)]
    ELSE IF manager \notin DOMAIN contract.is_manager
    THEN [contract |-> contract, result |-> Err(ErrInvalidRevokeManager)]
    ELSE [contract |-> [contract EXCEPT !.is_manager = MapInsert(@, manager, FALSE)],
          result |-> Ok(<<>>)]

\* revoke_manager open to every manager, not to the owner alone
revoke_manager_by_manager(contract, caller, manager) ==
    IF ~Flag(contract.is_manager, caller)
    THEN [contract |-> contract, result |-> Err(ErrUnauthorizedRevokeManager)]
    ELSE IF contract.owner = manager
    THEN [contract |-> contract, result |-> Err(ErrCannotRevokeOwner)]
    ELSE IF \/ manager \notin DOMAIN contract.is_manager
            \/ ~contract.is_manager[manager]
    THEN [contract |-> contract, result |-> Err(ErrInvalidRevokeManager)]
    ELSE [contract |-> [contract EXCEPT !.is_manager = MapInsert(@, manager, FALSE)],
          result |-> Ok(<<>>)]

\* CertificationNFT::revoke_manager, `caller` being ic_cdk::caller()
revoke_manager(contract, caller, manager) ==
    IF contract.owner # caller
    THEN [contract |-> contract, result |-> Err(ErrUnauthorizedRevokeManager)]
    ELSE IF contract.owner = manager
    THEN [contract |-> contract, result |-> Err(ErrCannotRevokeOwner)]
    ELSE IF \/ manager \notin DOMAIN contract.is_manager
            \/ ~contract.is_manager[manager]
    THEN [contract |-> contract, result |-> Err(ErrInvalidRevokeManager)]
    ELSE [contract |-> [contract EXCEPT !.is_manager = MapInsert(@, manager, FALSE)],
          result |-> Ok(<<>>)]

\* CertificationNFT::get_managers: the principals whose flag is true (the
\* Vec it returns lists them in the iteration order of the HashMap)
get_managers_of(contract) ==
    {p \in DOMAIN contract.is_manager : contract.is_manager[p]}

\* the orders in which a HashMap may list the members of S
Orderings(S) ==
    {s \in [1..Cardinality(S) -> S] : {s[i] : i \in 1..Cardinality(S)} = S}

\* is_caller_manager that accepts every principal with an entry in is_manager
is_caller_manager_contains_key(contract, caller, custom_error) ==
    IF caller \in DOMAIN contract.is_manager THEN Ok(<<>>) ELSE Err(custom_error)

\* CertificationNFT::is_caller_manager, `caller` being ic_cdk::caller()
is_caller_manager(contract, caller, custom_error) ==
    IF Flag(contract.is_manager, caller) THEN Ok(<<>>) ELSE Err(custom_error)

(***************************************************************************)
(* Facade: actions                                                         *)
(***************************************************************************)
\* #[ic_cdk::init] init, run once when the canister is installed
init(caller) ==
    /\ ~Initialized
    /\ State' = Some(NewContract(caller))
    /\ reply' = [op |-> "init", caller |-> caller]
    /\ UNCHANGED <<ledgerVars, pending>>

\* grantManager that answers Ok when there is no contract
grantManager_silent(caller, manager) ==
    /\ IF Initialized
       THEN LET r == grant_manager(Contract, caller, manager) IN
            /\ State' = Some(r.contract)
            /\ reply' = [op |-> "grantManager", caller |-> caller,
                         manager |-> manager, result |-> r.result]
       ELSE /\ State' = State
            /\ reply' = [op |-> "grantManager", caller |-> caller,
                         manager |-> manager, result |-> Ok(<<>>)]
    /\ UNCHANGED <<ledgerVars, pending>>

\* #[ic_cdk::update] grantManager
grantManager(caller, manager) ==
    /\ IF Initialized
       THEN LET r == grant_manager(Contract, caller, manager) IN
            /\ State' = Some(r.contract)
            /\ reply' = [op |-> "grantManager", caller |-> caller,
                         manager |-> manager, result |-> r.result]
       ELSE /\ State' = State
            /\ reply' = [op |-> "grantManager", caller |-> caller,
                         manager |-> manager, result |-> Err(ErrNotInitialized)]
    /\ UNCHANGED <<ledgerVars, pending>>

\* #[ic_cdk::update] revokeManager
revokeManager(caller, manager) ==
    /\ IF Initialized
       THEN LET r == revoke_manager(Contract, caller, manager) IN
            /\ State' = Some(r.contract)
            /\ reply' = [op |-> "revokeManager", caller |-> caller,
                         manager |-> manager, result |-> r.result]
       ELSE /\ State' = State
            /\ reply' = [op |-> "revokeManager", caller |-> caller,
                         manager |-> manager, result |-> Err(ErrNotInitialized)]
    /\ UNCHANGED <<ledgerVars, pending>>

\* #[ic_cdk::query] get_owner
get_owner ==
    /\ reply' = [op |-> "get_owner",
                 result |-> IF Initialized THEN Contract.owner ELSE Anonymous]
    /\ UNCHANGED <<ledgerVars, State, pending>>

\* #[ic_cdk::query] get_managers
get_managers ==
    /\ \E order \in (IF Initialized THEN Orderings(get_managers_of(Contract))
                     ELSE {<<>>}) :
          reply' = [op |-> "get_managers", result |-> order]
    /\ UNCHANGED <<ledgerVars, State, pending>>

(***************************************************************************)
(* Facade: specification                                                   *)
(***************************************************************************)
\* the facade module is instantiated (STATE holds None) and the ledger has
\* been initialised
InitFacade ==
    /\ token_map = EmptyMap
    /\ next_token_id = 1
    /\ base_token_uri = ""
    /\ icrc7_supply_cap = <<>>
    /\ minting_auth = <<>>
    /\ State = NoContract
    /\ pending = {}
    /\ reply = NoReply

FacadeInit == Idle /\ \E caller \in Principals : init(caller)
FacadeGrantManager ==
    Idle /\ \E caller \in Principals, manager \in Principals : grantManager(caller, manager)
FacadeRevokeManager ==
    Idle /\ \E caller \in Principals, manager \in Principals : revokeManager(caller, manager)
FacadeGetOwner == Idle /\ get_owner
FacadeGetManagers == Idle /\ get_managers

NextFacade ==
    \/ FacadeInit
    \/ FacadeGrantManager
    \/ FacadeRevokeManager
    \/ FacadeGetOwner
    \/ FacadeGetManagers
    \/ Return

SpecFacade == InitFacade /\ [][NextFacade]_vars

(***************************************************************************)
(* Facade: the remote calls of CertificationNFT                            *)
(* Each call_icrc7_<method> is split at its .await: the part before it     *)
(* (the manager check, if the method has one) and the match on the         *)
(* outcome of the call, Ok((value,)) for a reply of the callee and Err(e)  *)
(* for a call that was rejected.                                           *)
(***************************************************************************)
ErrUnauthorizedMint == "UnauthorizedMint"
ErrUnauthorizedSetBaseURI == "UnauthorizedSetBaseURI"
ErrUnauthorizedTransfer == "UnauthorizedTransfer"

\* the ledger canister, and a principal under which no canister is installed
LedgerId == "ledger"
CanisterIds == {LedgerId, "absent"}
\* {:?} of the (RejectionCode, String) a rejected call comes back with
RejectDetails == {"(DestinationInvalid, \"no canister\")"}

\* call_icrc7_base_uri up to the await: the manager check is commented out
call_icrc7_base_uri_check(contract, caller) == Ok(<<>>)

\* call_icrc7_base_uri from the await on
call_icrc7_base_uri_match(result) ==
    IF IsErr(result) THEN Err("Failed to call base_uri: " \o result.err)
    ELSE IF IsOk(result.ok) THEN Ok(result.ok.ok)
    ELSE Err(result.ok.err)

\* call_icrc7_set_base_uri without its manager check
call_icrc7_set_base_uri_check_none(contract, caller) == Ok(<<>>)

\* call_icrc7_set_base_uri up to the await
call_icrc7_set_base_uri_check(contract, caller) ==
    is_caller_manager(contract, caller, ErrUnauthorizedSetBaseURI)

\* call_icrc7_set_base_uri from the await on
call_icrc7_set_base_uri_match(result) ==
    IF IsErr(result) THEN Err("Failed to call set_base_uri: " \o result.err)
    ELSE IF IsOk(result.ok) THEN Ok(<<>>)
    ELSE Err(result.ok.err)

\* call_icrc7_token_uri up to the await: no manager check
call_icrc7_token_uri_check(contract, caller) == Ok(<<>>)

\* call_icrc7_token_uri from the await on
call_icrc7_token_uri_match(result) ==
    IF IsErr(result) THEN Err("Failed to call token_uri: " \o result.err)
    ELSE IF IsOk(result.ok) THEN Ok(result.ok.ok)
    ELSE Err(result.ok.err)

\* call_icrc7_mint up to the await
call_icrc7_mint_check(contract, caller) ==
    is_caller_manager(contract, caller, ErrUnauthorizedMint)

\* call_icrc7_mint that answers a rejected call with a token id
call_icrc7_mint_match_reject_ok(result) ==
    IF IsErr(result) THEN Ok(0)
    ELSE IF IsOk(result.ok) THEN Ok(result.ok.ok)
    ELSE Err(result.ok.err)

\* call_icrc7_mint from the await on
call_icrc7_mint_match(result) ==
    IF IsErr(result) THEN Err("Failed to call mint: " \o result.err)
    ELSE IF IsOk(result.ok) THEN Ok(result.ok.ok)
    ELSE Err(result.ok.err)

\* call_icrc7_mint_batch up to the await
call_icrc7_mint_batch_check(contract, caller) ==
    is_caller_manager(contract, caller, ErrUnauthorizedMint)

\* call_icrc7_mint_batch from the await on
call_icrc7_mint_batch_match(result) ==
    IF IsErr(result) THEN Err("Failed to call mint_batch: " \o result.err)
    ELSE IF IsOk(result.ok) THEN Ok(result.ok.ok)
    ELSE Err(result.ok.err)

\* call_icrc7_transfer up to the await
call_icrc7_transfer_check(contract, caller) ==
    is_caller_manager(contract, caller, ErrUnauthorizedTransfer)

\* call_icrc7_transfer from the await on: the vector of per-token results is
\* handed on as it came
call_icrc7_transfer_match(result) ==
    IF IsErr(result) THEN Err("Failed to call icrc7_transfer: " \o result.err)
    ELSE Ok(result.ok)

(***************************************************************************)
(* Facade: pass-through entry points                                       *)
(* A pass-through handler runs in two messages.  The first clones STATE,   *)
(* answers at once when there is no contract or the caller is refused, and *)
(* otherwise issues the remote call and is suspended: the call is kept in  *)
(* `pending` with the clone the handler holds.  The callee (or the host,   *)
(* for a call it cannot deliver) produces the outcome; the second message  *)
(* resumes the handler, which maps the outcome to its return value.        *)
(***************************************************************************)
\* the ids of the suspended calls
PendingIds == {c.id : c \in pending}
\* a fresh id for a call that is being issued
NewId == CHOOSE i \in 1..(Cardinality(pending) + 1) : i \notin PendingIds

\* the first message of a pass-through handler `op` invoked by `caller`:
\* `check` is the outcome of the part of call_icrc7_<method> before the await
\* (evaluated only when there is a contract)
Enter(op, caller, canister_id, method, args, check) ==
    /\ IF ~Initialized
       THEN /\ reply' = [op |-> op, caller |-> caller, method |-> method,
                         args |-> args, result |-> Err(ErrNotInitialized)]
            /\ pending' = pending
       ELSE IF IsErr(check)
       THEN /\ reply' = [op |-> op, caller |-> caller, method |-> method,
                         args |-> args, result |-> check]
            /\ pending' = pending
       ELSE /\ pending' = pending \cup
                  {[id |-> NewId, op |-> op, caller |-> caller,
                    canister_id |-> canister_id, method |-> method,
                    args |-> args, contract |-> Contract, response |-> <<>>]}
            /\ reply' = reply
    /\ UNCHANGED <<ledgerVars, State>>

\* #[ic_cdk::update] baseURI
baseURI(caller, canister_id) ==
    Enter("baseURI", caller, canister_id, "base_uri", <<>>,
          call_icrc7_base_uri_check(Contract, caller))

\* #[ic_cdk::update] setBaseURI
setBaseURI(caller, canister_id, uri) ==
    Enter("setBaseURI", caller, canister_id, "set_base_uri", [uri |-> uri],
          call_icrc7_set_base_uri_check(Contract, caller))

\* #[ic_cdk::update] tokenURI
tokenURI(caller, canister_id, token_id) ==
    Enter("tokenURI", caller, canister_id, "token_uri", [token_id |-> token_id],
          call_icrc7_token_uri_check(Contract, caller))

\* #[ic_cdk::update] mint of the facade
facade_mint(caller, canister_id, owner, name, description, logo) ==
    Enter("facade_mint", caller, canister_id, "mint",
          [owner |-> Account(owner, None), name |-> name,
           description |-> description, logo |-> logo],
          call_icrc7_mint_check(Contract, caller))

\* #[ic_cdk::update] mintBatch
mintBatch(caller, canister_id, owners, names, descriptions, logos) ==
    Enter("mintBatch", caller, canister_id, "mint_batch",
          [owners |-> [i \in 1..Len(owners) |-> Account(owners[i], None)],
           names |-> names, descriptions |-> descriptions, logos |-> logos],
          call_icrc7_mint_batch_check(Contract, caller))

\* #[ic_cdk::update] transfer: `from` is the `caller` parameter of the entry
\* point, not the principal that invokes it
transfer(caller, canister_id, from, token_ids, to_principal, from_subaccount) ==
    Enter("transfer", caller, canister_id, "icrc7_transfer",
          [caller |-> Account(from, from_subaccount),
           args |-> [i \in 1..Len(token_ids) |->
                       [token_id |-> token_ids[i],
                        from_subaccount |-> from_subaccount,
                        to |-> Account(to_principal, None)]]],
          call_icrc7_transfer_check(Contract, caller))

(***************************************************************************)
(* The remote call: execution by the ledger, rejection, resumption         *)
(***************************************************************************)
\* the ledger method `method` run with `args` on ledger state (map, next,
\* uri): the state it leaves and the value it returns
ledger_method(map, next, uri, method, args) ==
    CASE method = "mint" ->
           LET r == mint_run(map, next, args)
           IN  [map |-> r.map, next |-> r.next, uri |-> uri, result |-> r.result]
      [] method = "mint_batch" ->
           LET r == mint_batch_run(map, next, args)
           IN  [map |-> r.map, next |-> r.next, uri |-> uri, result |-> r.result]
      [] method = "icrc7_transfer" ->
           LET r == icrc7_transfer_run(map, args.caller, args.args, 1, <<>>)
           IN  [map |-> r.map, next |-> next, uri |-> uri, result |-> r.results]
      [] method = "set_base_uri" ->
           [map |-> map, next |-> next, uri |-> args.uri, result |-> Ok(<<>>)]
      [] method = "base_uri" ->
           [map |-> map, next |-> next, uri |-> uri, result |-> base_uri_run(uri)]
      [] method = "token_uri" ->
           [map |-> map, next |-> next, uri |-> uri,
            result |-> token_uri_run(map, uri, args.token_id)]

\* the tokens the method would add
Minted(method, args) ==
    CASE method = "mint" -> 1
      [] method = "mint_batch" -> Len(args.owners)
      [] OTHER -> 0

\* the outcome `result` of the suspended call `c` has arrived
Answered(c, result) ==
    pending' = (pending \ {c}) \cup {[c EXCEPT !.response = <<result>>]}

\* a ledger whose mint loses the advance of the counter
LedgerExecute_counter_lost(c) ==
    /\ c.response = <<>>
    /\ c.canister_id = LedgerId
    /\ LET r == ledger_method(token_map, next_token_id, base_token_uri,
                              c.method, c.args) IN
        /\ token_map' = r.map
        /\ next_token_id' = next_token_id
        /\ base_token_uri' = r.uri
        /\ Answered(c, Ok(r.result))
    /\ UNCHANGED <<icrc7_supply_cap, minting_auth, State, reply>>

\* the ledger takes the call out of its queue, runs the method as one message
\* and replies with the value the method returned
LedgerExecute(c) ==
    /\ c.response = <<>>
    /\ c.canister_id = LedgerId
    /\ LET r == ledger_method(token_map, next_token_id, base_token_uri,
                              c.method, c.args) IN
        /\ token_map' = r.map
        /\ next_token_id' = r.next
        /\ base_token_uri' = r.uri
        /\ Answered(c, Ok(r.result))
    /\ UNCHANGED <<icrc7_supply_cap, minting_auth, State, reply>>

\* the call is rejected (no canister under that id, the callee stopped or out
\* of cycles, ...): the callee's state is untouched
Reject(c, e) ==
    /\ c.response = <<>>
    /\ Answered(c, Err(e))
    /\ UNCHANGED <<ledgerVars, State, reply>>

\* the match after the await of the handler that issued the call
call_match(c) ==
    CASE c.method = "base_uri" -> call_icrc7_base_uri_match(c.response[1])
      [] c.method = "set_base_uri" -> call_icrc7_set_base_uri_match(c.response[1])
      [] c.method = "token_uri" -> call_icrc7_token_uri_match(c.response[1])
      [] c.method = "mint" -> call_icrc7_mint_match(c.response[1])
      [] c.method = "mint_batch" -> call_icrc7_mint_batch_match(c.response[1])
      [] c.method = "icrc7_transfer" -> call_icrc7_transfer_match(c.response[1])

\* a handler that checks the caller's flag again when it resumes
Resume_recheck(c) ==
    /\ c.response # <<>>
    /\ pending' = pending \ {c}
    /\ reply' = [op |-> c.op, caller |-> c.caller, method |-> c.method,
                 args |-> c.args,
                 result |-> IF c.method \in {"mint", "mint_batch", "set_base_uri",
                                             "icrc7_transfer"}
                               /\ ~Flag(Contract.is_manager, c.caller)
                            THEN Err("Unauthorized: caller is revoked")
                            ELSE call_match(c)]
    /\ UNCHANGED <<ledgerVars, State>>

\* a handler that never resumes when its call was rejected
Resume_reply_only(c) ==
    /\ c.response # <<>>
    /\ IsOk(c.response[1])
    /\ pending' = pending \ {c}
    /\ reply' = [op |-> c.op, caller |-> c.caller, method |-> c.method,
                 args |-> c.args, result |-> call_match(c)]
    /\ UNCHANGED <<ledgerVars, State>>

\* a handler that stores its clone back into STATE when it resumes
Resume_write_back(c) ==
    /\ c.response # <<>>
    /\ pending' = pending \ {c}
    /\ reply' = [op |-> c.op, caller |-> c.caller, method |-> c.method,
                 args |-> c.args, result |-> call_match(c)]
    /\ State' = Some(c.contract)
    /\ UNCHANGED ledgerVars

\* the second message of a pass-through handler: the outcome is mapped to the
\* return value, which goes back to the caller; the clone is dropped
Resume(c) ==
    /\ c.response # <<>>
    /\ pending' = pending \ {c}
    /\ reply' = [op |-> c.op, caller |-> c.caller, method |-> c.method,
                 args |-> c.args, result |-> call_match(c)]
    /\ UNCHANGED <<ledgerVars, State>>

(***************************************************************************)
(* The two canisters together                                              *)
(***************************************************************************)
\* principals given as token owners, senders and recipients through the facade
Holders == {"p1", "p2"}
\* token-id vectors given to transfer
TokenIdLists == {<<1>>, <<2, 1>>}

\* both canisters installed, the facade's init not yet run
InitSystem ==
    /\ token_map = EmptyMap
    /\ next_token_id = 1
    /\ base_token_uri = ""
    /\ icrc7_supply_cap = <<>>
    /\ minting_auth = <<>>
    /\ State = NoContract
    /\ pending = {}
    /\ reply = NoReply

\* the environment of this specification issues one pass-through call at a
\* time; grantManager and revokeManager run between its two messages
CanEnter == Idle /\ pending = {}

\* the facade is installed by p1, who becomes its owner; managers are granted
\* and revoked among the holders, by anyone
SystemInit == Idle /\ init("p1")
SystemGrantManager ==
    Idle /\ \E caller \in Principals, manager \in Holders : grantManager(caller, manager)
SystemRevokeManager ==
    Idle /\ \E caller \in Principals, manager \in Holders : revokeManager(caller, manager)
SystemGetOwner == Idle /\ get_owner
SystemGetManagers == Idle /\ get_managers

SystemBaseURI ==
    CanEnter /\ \E caller \in Principals, cid \in CanisterIds : baseURI(caller, cid)
SystemSetBaseURI ==
    CanEnter /\ \E caller \in Principals, cid \in CanisterIds, uri \in Uris :
        setBaseURI(caller, cid, uri)
SystemTokenURI ==
    CanEnter /\ \E caller \in Principals, cid \in CanisterIds, token_id \in TokenIds :
        tokenURI(caller, cid, token_id)
SystemMint ==
    CanEnter /\ \E caller \in Principals, cid \in CanisterIds, owner \in Holders :
        facade_mint(caller, cid, owner, "x", None, None)
SystemMintBatch ==
    CanEnter /\ \E caller \in Principals, cid \in CanisterIds,
                   owners \in {<<>>, <<"p2", "p1">>} :
        mintBatch(caller, cid, owners, <<"x">>, <<>>, <<>>)
SystemTransfer ==
    CanEnter /\ \E caller \in Principals, cid \in CanisterIds, from \in Holders,
                   token_ids \in TokenIdLists, to \in Holders :
        transfer(caller, cid, from, token_ids, to, None)
SystemExecute ==
    \E c \in pending :
        /\ next_token_id + Minted(c.method, c.args) <= MaxTokens + 1
        /\ LedgerExecute(c)
SystemReject == \E c \in pending, e \in RejectDetails : Reject(c, e)
SystemResume == Idle /\ \E c \in pending : Resume(c)

NextSystem ==
    \/ SystemInit
    \/ SystemGrantManager
    \/ SystemRevokeManager
    \/ SystemGetOwner
    \/ SystemGetManagers
    \/ SystemBaseURI
    \/ SystemSetBaseURI
    \/ SystemTokenURI
    \/ SystemMint
    \/ SystemMintBatch
    \/ SystemTransfer
    \/ SystemExecute
    \/ SystemReject
    \/ SystemResume
    \/ Return

SpecSystem == InitSystem /\ [][NextSystem]_vars

(***************************************************************************)
(* Facade and ledger with several mint and mintBatch calls in flight: the  *)
(* facade starts a new handler whenever it is between two messages, the    *)
(* ledger runs the calls in its queue one message at a time in any order,  *)
(* and the handlers resume in any order.                                   *)
(***************************************************************************)
MaxInFlight == 3
MaxRaceTokens == 4

CanRace == Idle /\ Cardinality(pending) < MaxInFlight

RaceInit == Idle /\ init("p1")
RaceMint == CanRace /\ facade_mint("p1", LedgerId, "p1", "x", None, None)
RaceMintBatch ==
    CanRace /\ \E owners \in {<<>>, <<"p2", "p1">>} :
        mintBatch("p1", LedgerId, owners, <<"x">>, <<>>, <<>>)
RaceExecute ==
    \E c \in pending :
        /\ next_token_id + Minted(c.method, c.args) <= MaxRaceTokens + 1
        /\ LedgerExecute(c)
RaceResume == Idle /\ \E c \in pending : Resume(c)

NextRace ==
    \/ RaceInit
    \/ RaceMint
    \/ RaceMintBatch
    \/ RaceExecute
    \/ RaceResume
    \/ Return

SpecRace == InitSystem /\ [][NextRace]_vars

(***************************************************************************)
(* The ledger's icrc7_transfer with the invoking party made explicit: the  *)
(* update method is public, ic_cdk::caller() is the party that sent the    *)
(* message (the facade canister or anybody else), and the method decides   *)
(* on its `caller` argument.                                               *)
(***************************************************************************)
FacadeId == "facade"
Invokers == Principals \cup {FacadeId}

\* a ledger that serves only the party named in the `caller` argument
icrc7_transfer_invoked_owner_only(invoker, map, caller, args) ==
    IF invoker = caller.owner
    THEN icrc7_transfer_run(map, caller, args, 1, <<>>)
    ELSE [map |-> map,
          results |-> [i \in 1..Len(args) |-> Err(ErrTransferUnauthorized)]]

\* icrc7_transfer invoked by `invoker`: the body never reads ic_cdk::caller()
icrc7_transfer_invoked(invoker, map, caller, args) ==
    icrc7_transfer_run(map, caller, args, 1, <<>>)

icrc7_transfer_by(invoker, caller, args) ==
    /\ LET r == icrc7_transfer_invoked(invoker, token_map, caller, args) IN
        /\ token_map' = r.map
        /\ reply' = [op |-> "icrc7_transfer", invoker |-> invoker,
                     caller |-> caller, args |-> args, result |-> r.results]
    /\ UNCHANGED <<next_token_id, base_token_uri, icrc7_supply_cap, minting_auth,
                   State, pending>>

InvokerTransferArgs ==
    {[token_id |-> t, from_subaccount |-> s, to |-> Account(h, None)] :
        t \in 1..MaxTokens, s \in Subaccounts, h \in Holders}

\* p1 installs the facade and may make p2 a manager; anybody mints on the
\* ledger and invokes its icrc7_transfer; the managers transfer through the
\* facade, whose call the ledger receives from the facade canister
InvokerInit == Idle /\ init("p1")
InvokerGrantManager == Idle /\ grantManager("p1", "p2")
InvokerMint ==
    Idle /\ \E owner \in Accounts :
        mint([owner |-> owner, name |-> "x", description |-> None, logo |-> None])
InvokerTransfer ==
    Idle /\ \E invoker \in Invokers, caller \in Accounts, arg \in InvokerTransferArgs :
        icrc7_transfer_by(invoker, caller, <<arg>>)
InvokerFacadeTransfer ==
    CanEnter /\ \E caller \in Principals, from \in Holders, token_ids \in TokenIdLists,
                   to \in Holders, from_subaccount \in Subaccounts :
        transfer(caller, LedgerId, from, token_ids, to, from_subaccount)
InvokerExecute == \E c \in pending : LedgerExecute(c)
InvokerResume == Idle /\ \E c \in pending : Resume(c)

NextInvoker ==
    \/ InvokerInit
    \/ InvokerGrantManager
    \/ InvokerMint
    \/ InvokerTransfer
    \/ InvokerFacadeTransfer
    \/ InvokerExecute
    \/ InvokerResume
    \/ Return

SpecInvoker == InitSystem /\ [][NextInvoker]_vars

(***************************************************************************)
(* The ledger installed with a supply cap and a minting authority: init    *)
(* stores both in COLLECTION_METADATA, and mint is a public update method  *)
(* that any party can invoke.                                              *)
(***************************************************************************)
\* Option<u128> and Option<Account>: <<>> is None, <<v>> is Some(v)
SupplyCaps == {<<>>} \cup {<<cap>> : cap \in 0..MaxTokens}
MintingAuths == {<<>>, <<Account("p1", None)>>}

\* a ledger whose mint serves only the minting authority and stops at the cap
mint_invoked_enforcing(invoker, cap, auth, map, next, args) ==
    IF auth # <<>> /\ auth[1].owner # invoker
    THEN [map |-> map, next |-> next, result |-> Err("Unauthorized minter")]
    ELSE IF cap # <<>> /\ TotalSupply(map) >= cap[1]
    THEN [map |-> map, next |-> next, result |-> Err("Supply cap reached")]
    ELSE mint_run(map, next, args)

\* mint invoked by `invoker` on a ledger with the cap and the authority: the
\* body reads neither ic_cdk::caller() nor the two metadata fields
mint_invoked(invoker, cap, auth, map, next, args) == mint_run(map, next, args)

\* get_next_token_id stores a clone of the metadata with the counter advanced
mint_by(invoker, args) ==
    /\ next_token_id <= MaxTokens
    /\ LET r == mint_invoked(invoker, icrc7_supply_cap, minting_auth,
                             token_map, next_token_id, args) IN
        /\ token_map' = r.map
        /\ next_token_id' = r.next
        /\ reply' = [op |-> "mint", invoker |-> invoker, args |-> args,
                     result |-> r.result]
    /\ UNCHANGED <<base_token_uri, icrc7_supply_cap, minting_auth, State, pending>>

InitCap ==
    /\ token_map = EmptyMap
    /\ next_token_id = 1
    /\ base_token_uri = ""
    /\ icrc7_supply_cap \in SupplyCaps
    /\ minting_auth \in MintingAuths
    /\ State = NoContract
    /\ pending = {}
    /\ reply = NoReply

CapMint == Idle /\ \E invoker \in Invokers, args \in MintArgsSet : mint_by(invoker, args)
CapTotalSupply == Idle /\ icrc7_total_supply

NextCap ==
    \/ CapMint
    \/ CapTotalSupply
    \/ Return

SpecCap == InitCap /\ [][NextCap]_vars

(***************************************************************************)
(* Facade and ledger with scheduling: a response that has arrived is       *)
(* handed to its suspended handler (the message queue of the facade is     *)
(* served), and a returned value is delivered.  Whether a call is ever     *)
(* answered is left open: the callee may never reply.                      *)
(***************************************************************************)
\* the ids of the calls in flight: two handlers can be suspended at a time
CallIds == {1, 2}
CanStart == Idle /\ Cardinality(pending) < Cardinality(CallIds)

LiveInit == Idle /\ init("p1")
LiveGrantManager == Idle /\ grantManager("p1", "p2")
LiveMint ==
    CanStart /\ \E caller \in {"p1", "p3"}, cid \in CanisterIds :
        facade_mint(caller, cid, "p1", "x", None, None)
LiveTokenURI == CanStart /\ tokenURI("p1", LedgerId, 1)
\* the call with this id is answered by the ledger or rejected
Resolve(id) ==
    \E c \in pending :
        /\ c.id = id
        /\ \/ /\ next_token_id + Minted(c.method, c.args) <= MaxTokens + 1
              /\ LedgerExecute(c)
           \/ \E e \in RejectDetails : Reject(c, e)
LiveResolve == \E id \in CallIds : Resolve(id)
\* the handler of the call with this id resumes
ResumeOf(id) == Idle /\ \E c \in pending : c.id = id /\ Resume(c)
LiveResume == \E id \in CallIds : ResumeOf(id)

NextLive ==
    \/ LiveInit
    \/ LiveGrantManager
    \/ LiveMint
    \/ LiveTokenURI
    \/ LiveResolve
    \/ LiveResume
    \/ Return

SpecLive ==
    /\ InitSystem
    /\ [][NextLive]_vars
    /\ WF_vars(Return)
    /\ \A id \in CallIds : SF_vars(ResumeOf(id))

(***************************************************************************)
(* Ledger: what a step of icrc7_transfer did, element by element           *)
(***************************************************************************)
TransferStep == reply'.op = "icrc7_transfer"
\* the token map the i-th element of the call found, and the one it left
ElemPre(i) == MapAfter(token_map, reply'.caller, reply'.args, i - 1)
ElemPost(i) == MapAfter(token_map, reply'.caller, reply'.args, i)
\* the i-th element names a token that exists when the element is reached
ElemExists(i) == reply'.args[i].token_id \in DOMAIN ElemPre(i)
\* the owner of that token when the element is reached
ElemOwner(i) == ElemPre(i)[reply'.args[i].token_id].owner
\* a state in which the call just answered is a transfer
TransferReply == reply.op = "icrc7_transfer"
MintStep == reply'.op \in {"mint", "mint_batch"}

(***************************************************************************)
(* C1: in every reachable ledger state the keys of the token map are       *)
(* exactly 1 .. next_token_id - 1 (each token stored under its own id), a  *)
(* mint has returned the id next_token_id - 1, a mint_batch of n owners    *)
(* has returned the n consecutive ids ending at next_token_id - 1, and     *)
(* icrc7_total_supply() is next_token_id - 1.                              *)
(***************************************************************************)
C1_SequentialIds ==
    /\ DOMAIN token_map = 1..(next_token_id - 1)
    /\ \A k \in DOMAIN token_map : token_map[k].id = k
    /\ TotalSupply(token_map) = next_token_id - 1
    /\ reply.op = "mint" => reply.result = Ok(next_token_id - 1)
    /\ reply.op = "mint_batch" =>
         LET n == Len(reply.args.owners) IN
         reply.result = Ok([i \in 1..n |-> next_token_id - 1 - n + i])
    /\ reply.op = "icrc7_total_supply" => reply.result = next_token_id - 1

\* a second token has been minted right after a first one
C1_Witness ==
    /\ reply.op = "mint"
    /\ reply.result = Ok(2)
    /\ DOMAIN token_map = {1, 2}

(***************************************************************************)
(* C2: next_token_id never decreases; a successful mint raises it by       *)
(* exactly 1 (a successful mint_batch by one per token minted), a failed   *)
(* mint leaves it unchanged, and every other operation leaves it           *)
(* unchanged.                                                              *)
(***************************************************************************)
C2_CounterStep ==
    [][/\ next_token_id' >= next_token_id
       /\ (reply'.op = "mint" /\ IsOk(reply'.result)) =>
             next_token_id' = next_token_id + 1
       /\ (reply'.op = "mint_batch" /\ IsOk(reply'.result)) =>
             next_token_id' = next_token_id + Len(reply'.result.ok)
       /\ (MintStep /\ IsErr(reply'.result)) => next_token_id' = next_token_id
       /\ ~MintStep => next_token_id' = next_token_id]_vars

\* a mint has succeeded and the counter stands one above the id it returned
C2_Witness ==
    /\ reply.op = "mint"
    /\ IsOk(reply.result)
    /\ next_token_id = reply.result.ok + 1

(***************************************************************************)
(* C3 as claimed: every element whose token exists and whose owner is not  *)
(* the `caller` account (principal and subaccount of `caller`) gets the    *)
(* Unauthorized error and leaves the token's owner unchanged.              *)
(***************************************************************************)
C3_Original ==
    [][TransferStep =>
        \A i \in 1..Len(reply'.args) :
            (ElemExists(i) /\ ElemOwner(i) # reply'.caller) =>
                /\ reply'.result[i] = Err(ErrTransferUnauthorized)
                /\ ElemPost(i)[reply'.args[i].token_id].owner = ElemOwner(i)]_vars

(***************************************************************************)
(* C3 amended: every element whose token exists and whose owner is not     *)
(* the account (caller.owner, element.from_subaccount) gets the            *)
(* Unauthorized error and leaves the token's owner unchanged; the          *)
(* subaccount of `caller` is not consulted.                                *)
(***************************************************************************)
C3_Unauthorized ==
    [][TransferStep =>
        /\ token_map' = ElemPost(Len(reply'.args))
        /\ \A i \in 1..Len(reply'.args) :
            (/\ ElemExists(i)
             /\ ElemOwner(i) # Account(reply'.caller.owner,
                                       reply'.args[i].from_subaccount)) =>
                /\ reply'.result[i] = Err(ErrTransferUnauthorized)
                /\ ElemPost(i)[reply'.args[i].token_id].owner = ElemOwner(i)]_vars

\* a one-element transfer of an existing token was refused as unauthorized
\* although the principal of `caller` owns it: the subaccounts differ
C3_Witness ==
    /\ TransferReply
    /\ Len(reply.args) = 1
    /\ reply.args[1].token_id \in DOMAIN token_map
    /\ reply.result[1] = Err(ErrTransferUnauthorized)
    /\ token_map[reply.args[1].token_id].owner.owner = reply.caller.owner

(***************************************************************************)
(* C4 as claimed: every element for an existing token whose `to` is the    *)
(* token's current owner fails with InvalidTransfer, owner unchanged.      *)
(***************************************************************************)
C4_Original ==
    [][TransferStep =>
        \A i \in 1..Len(reply'.args) :
            (ElemExists(i) /\ reply'.args[i].to = ElemOwner(i)) =>
                /\ reply'.result[i] = Err(ErrInvalidTransfer)
                /\ ElemPost(i)[reply'.args[i].token_id].owner = ElemOwner(i)]_vars

(***************************************************************************)
(* C4 amended: an element for an existing token whose `to` is the token's  *)
(* current owner always fails and leaves the owner unchanged; it fails     *)
(* with InvalidTransfer when caller.owner and from_subaccount match the    *)
(* owner, and with Unauthorized when they do not.                          *)
(***************************************************************************)
C4_SelfTransfer ==
    [][TransferStep =>
        /\ token_map' = ElemPost(Len(reply'.args))
        /\ \A i \in 1..Len(reply'.args) :
            (ElemExists(i) /\ reply'.args[i].to = ElemOwner(i)) =>
                /\ ElemPost(i)[reply'.args[i].token_id].owner = ElemOwner(i)
                /\ reply'.result[i] =
                     IF ElemOwner(i) = Account(reply'.caller.owner,
                                               reply'.args[i].from_subaccount)
                     THEN Err(ErrInvalidTransfer)
                     ELSE Err(ErrTransferUnauthorized)]_vars

\* the owner of a token tried to transfer it to the account that holds it
C4_Witness ==
    /\ TransferReply
    /\ Len(reply.args) = 1
    /\ reply.result[1] = Err(ErrInvalidTransfer)
    /\ reply.args[1].token_id \in DOMAIN token_map
    /\ token_map[reply.args[1].token_id].owner = reply.args[1].to

(***************************************************************************)
(* C5: the checks of an element run in the order existence, authorization, *)
(* self-transfer: an unknown id gives NonExistentToken whatever caller and *)
(* destination are; an existing token with a caller / from_subaccount      *)
(* mismatch gives Unauthorized even when `to` is the current owner;        *)
(* InvalidTransfer is given only when the token exists and the             *)
(* authorization check passed.                                             *)
(***************************************************************************)
C5_CheckOrder ==
    [][TransferStep =>
        \A i \in 1..Len(reply'.args) :
            LET arg == reply'.args[i]
                res == reply'.result[i]
                authorized == ElemOwner(i) = Account(reply'.caller.owner,
                                                     arg.from_subaccount)
            IN  /\ ~ElemExists(i) => res = Err(ErrNonExistingTokenId)
                /\ (ElemExists(i) /\ ~authorized) => res = Err(ErrTransferUnauthorized)
                /\ res = Err(ErrInvalidTransfer) =>
                     (ElemExists(i) /\ authorized /\ arg.to = ElemOwner(i))]_vars

\* an unauthorized caller asked to move a token to the account that already
\* holds it and was told Unauthorized, not InvalidTransfer
C5_Witness ==
    /\ TransferReply
    /\ Len(reply.args) = 1
    /\ reply.args[1].token_id \in DOMAIN token_map
    /\ token_map[reply.args[1].token_id].owner = reply.args[1].to
    /\ reply.result[1] = Err(ErrTransferUnauthorized)

(***************************************************************************)
(* C6: a successful transfer element returns the token id and changes the  *)
(* owner of that token to `to` and nothing else (its id, name, description *)
(* and logo, every other token, next_token_id and the base URI stay); a    *)
(* failed element changes no ledger state; no other operation changes the  *)
(* owner, or anything else, of a token that exists.                        *)
(***************************************************************************)
C6_TransferFrame ==
    [][/\ TransferStep =>
            /\ token_map' = ElemPost(Len(reply'.args))
            /\ next_token_id' = next_token_id
            /\ base_token_uri' = base_token_uri
            /\ \A i \in 1..Len(reply'.args) :
                LET arg == reply'.args[i]
                    res == reply'.result[i]
                IN  /\ IsErr(res) => ElemPost(i) = ElemPre(i)
                    /\ IsOk(res) =>
                        /\ res = Ok(arg.token_id)
                        /\ ElemExists(i)
                        /\ DOMAIN ElemPost(i) = DOMAIN ElemPre(i)
                        /\ \A k \in DOMAIN ElemPre(i) :
                            ElemPost(i)[k] =
                                IF k = arg.token_id
                                THEN [ElemPre(i)[k] EXCEPT !.owner = arg.to]
                                ELSE ElemPre(i)[k]
       /\ ~TransferStep =>
            \A k \in DOMAIN token_map :
                k \in DOMAIN token_map' /\ token_map'[k] = token_map[k]]_vars

\* the second of two tokens has been transferred: it has a new owner, the
\* metadata it was minted with, and the first token is still with its owner
C6_Witness ==
    /\ TransferReply
    /\ reply.result = <<Ok(2)>>
    /\ DOMAIN token_map = {1, 2}
    /\ token_map[2].owner = reply.args[1].to
    /\ token_map[2].name = "y"
    /\ token_map[1].owner # reply.args[1].to

(***************************************************************************)
(* C7 as claimed: the call returns one result per element, in input order, *)
(* and the result of each element is the one that element would get alone, *)
(* whatever the other elements of the call are, also when several elements *)
(* name the same token.                                                    *)
(***************************************************************************)
C7_Original ==
    [][TransferStep =>
        /\ Len(reply'.result) = Len(reply'.args)
        /\ \A i \in 1..Len(reply'.args) :
            reply'.result[i] =
                transfer_one(token_map, reply'.caller, reply'.args[i]).result]_vars

(***************************************************************************)
(* C7 amended: the call returns one result per element, in input order; a  *)
(* failing element never aborts or skips the later ones; the elements are  *)
(* applied one after the other, so the result of an element is the one it  *)
(* would get alone unless an earlier element of the same call has moved    *)
(* the token it names, and then it is judged against the new owner.        *)
(***************************************************************************)
C7_Sequential ==
    [][TransferStep =>
        LET args == reply'.args
            \* an earlier element succeeded on the token element i names
            moved(i) == \E j \in 1..(i - 1) :
                            /\ args[j].token_id = args[i].token_id
                            /\ IsOk(reply'.result[j])
        IN  /\ Len(reply'.result) = Len(args)
            /\ \A i \in 1..Len(args) :
                /\ ~moved(i) =>
                     reply'.result[i] =
                        transfer_one(token_map, reply'.caller, args[i]).result
                /\ moved(i) =>
                     \* the earlier element has made its `to` the owner
                     LET js == {j \in 1..(i - 1) :
                                  /\ args[j].token_id = args[i].token_id
                                  /\ IsOk(reply'.result[j])}
                         last == CHOOSE j \in js : \A j2 \in js : j2 <= j
                         now == [token_map EXCEPT
                                   ![args[i].token_id].owner = args[last].to]
                     IN  reply'.result[i] =
                            transfer_one(now, reply'.caller, args[i]).result]_vars

\* a call whose first element failed and whose second element succeeded
C7_Witness ==
    /\ TransferReply
    /\ Len(reply.args) = 2
    /\ IsErr(reply.result[1])
    /\ IsOk(reply.result[2])

(***************************************************************************)
(* Facade: steps of grantManager / revokeManager on an initialised facade  *)
(***************************************************************************)
GrantStep == reply'.op = "grantManager" /\ Initialized
RevokeStep == reply'.op = "revokeManager" /\ Initialized
\* every principal other than p has the entry it had (present or absent,
\* and the same flag)
OthersKept(p) ==
    \A q \in Principals \ {p} :
        /\ q \in DOMAIN Contract'.is_manager <=> q \in DOMAIN Contract.is_manager
        /\ q \in DOMAIN Contract.is_manager => Contract'.is_manager[q] = Contract.is_manager[q]

(***************************************************************************)
(* C8: grant_manager(target) fails Unauthorized when the caller is not the *)
(* owner and AlreadyManager when the flag of target is true, both leaving  *)
(* the manager map and the owner as they were; otherwise it succeeds, sets *)
(* the flag of target to true and changes nothing else.                    *)
(***************************************************************************)
C8_GrantManager ==
    [][GrantStep =>
        LET caller == reply'.caller
            target == reply'.manager
            flagged == target \in DOMAIN Contract.is_manager /\ Contract.is_manager[target]
        IN  /\ caller # Contract.owner =>
                 reply'.result = Err(ErrUnauthorizedGrantManager) /\ State' = State
            /\ (caller = Contract.owner /\ flagged) =>
                 reply'.result = Err(ErrAlreadyManager) /\ State' = State
            /\ (caller = Contract.owner /\ ~flagged) =>
                 /\ reply'.result = Ok(<<>>)
                 /\ Contract'.owner = Contract.owner
                 /\ target \in DOMAIN Contract'.is_manager
                 /\ Contract'.is_manager[target] = TRUE
                 /\ OthersKept(target)]_vars

\* the owner has granted a principal that is a manager already
C8_Witness ==
    /\ reply.op = "grantManager"
    /\ Initialized
    /\ reply.caller = Contract.owner
    /\ reply.manager # Contract.owner
    /\ reply.result = Err(ErrAlreadyManager)

(***************************************************************************)
(* C9 as claimed: revoke_manager(owner) fails with CannotRevokeOwner       *)
(* whoever the caller is, and leaves the manager map unchanged.            *)
(***************************************************************************)
C9_Original ==
    [][(RevokeStep /\ reply'.manager = Contract.owner) =>
        /\ reply'.result = Err(ErrCannotRevokeOwner)
        /\ Contract'.is_manager = Contract.is_manager]_vars

(***************************************************************************)
(* C9 amended: revoke_manager(owner) always fails and leaves the manager   *)
(* map unchanged; it fails with CannotRevokeOwner when the caller is the   *)
(* owner and with Unauthorized when the caller is anyone else (manager or  *)
(* not), because the caller is checked first.                              *)
(***************************************************************************)
C9_RevokeOwner ==
    [][(RevokeStep /\ reply'.manager = Contract.owner) =>
        /\ State' = State
        /\ reply'.result =
             IF reply'.caller = Contract.owner
             THEN Err(ErrCannotRevokeOwner)
             ELSE Err(ErrUnauthorizedRevokeManager)]_vars

\* the owner has tried to revoke itself while another manager exists
C9_Witness ==
    /\ reply.op = "revokeManager"
    /\ Initialized
    /\ reply.manager = Contract.owner
    /\ reply.caller = Contract.owner
    /\ reply.result = Err(ErrCannotRevokeOwner)
    /\ \E p \in Principals \ {Contract.owner} : Flag(Contract.is_manager, p)

(***************************************************************************)
(* C10: revoke_manager(target) by the owner, target not the owner: fails   *)
(* InvalidManager and changes nothing when target is absent from the map   *)
(* or flagged false; otherwise succeeds and sets the flag of target to     *)
(* false, after which the manager check for target fails, target is not    *)
(* among the managers listed, and no other entry has changed.              *)
(***************************************************************************)
C10_RevokeManager ==
    [][(RevokeStep /\ reply'.caller = Contract.owner /\ reply'.manager # Contract.owner) =>
        LET target == reply'.manager
            flagged == target \in DOMAIN Contract.is_manager /\ Contract.is_manager[target]
        IN  /\ ~flagged =>
                 reply'.result = Err(ErrInvalidRevokeManager) /\ State' = State
            /\ flagged =>
                 /\ reply'.result = Ok(<<>>)
                 /\ Contract'.owner = Contract.owner
                 /\ target \in DOMAIN Contract'.is_manager
                 /\ Contract'.is_manager[target] = FALSE
                 /\ IsErr(is_caller_manager(Contract', target, "Unauthorized"))
                 /\ target \notin get_managers_of(Contract')
                 /\ OthersKept(target)]_vars

\* a manager has been revoked while a third principal is still a manager
C10_Witness ==
    /\ reply.op = "revokeManager"
    /\ reply.result = Ok(<<>>)
    /\ Contract.is_manager[reply.manager] = FALSE
    /\ \E p \in Principals \ {Contract.owner, reply.manager} : Flag(Contract.is_manager, p)

(***************************************************************************)
(* C11: in every state reachable once the facade's init has run, through   *)
(* any sequence of grantManager, revokeManager and pass-through calls by   *)
(* any callers, the owner's manager flag is true, the owner is among the   *)
(* managers, and a list of managers just returned contains the owner.      *)
(***************************************************************************)
C11_OwnerIsManager ==
    Initialized =>
        /\ Contract.owner \in DOMAIN Contract.is_manager
        /\ Contract.is_manager[Contract.owner] = TRUE
        /\ Contract.owner \in get_managers_of(Contract)
        /\ reply.op = "get_managers" =>
              \E i \in DOMAIN reply.result : reply.result[i] = Contract.owner

\* the owner has just tried to revoke itself while a pass-through call that
\* another manager issued is suspended
C11_Witness ==
    /\ Initialized
    /\ reply.op = "revokeManager"
    /\ reply.caller = Contract.owner
    /\ reply.manager = Contract.owner
    /\ \E c \in pending : c.caller # Contract.owner /\ c.method = "mint"
    /\ Flag(Contract.is_manager, Contract.owner)

(***************************************************************************)
(* C12: a manager flag of false is equivalent to absence.  For every       *)
(* reachable contract and every non-owner X it maps to false, the contract *)
(* without X's entry answers grant_manager, revoke_manager (any caller,    *)
(* any target), the manager check of the pass-throughs (any caller, each   *)
(* of its error names) and get_managers exactly as the contract itself,    *)
(* and the contracts the two operations leave have the same owner and the  *)
(* same managers.                                                          *)
(***************************************************************************)
\* HashMap without the key k
MapRemove(map, k) == [x \in (DOMAIN map) \ {k} |-> map[x]]
\* the contract with X's entry removed from is_manager
WithoutEntry(contract, X) == [contract EXCEPT !.is_manager = MapRemove(@, X)]
\* two contracts name the same owner and the same managers
SameManagers(c1, c2) ==
    /\ c1.owner = c2.owner
    /\ \A p \in Principals : Flag(c1.is_manager, p) = Flag(c2.is_manager, p)
    /\ get_managers_of(c1) = get_managers_of(c2)
\* the non-owners the contract maps to false
FalseFlagged(contract) ==
    {X \in DOMAIN contract.is_manager :
        X # contract.owner /\ contract.is_manager[X] = FALSE}

C12_FalseIsAbsent ==
    Initialized =>
        \A X \in FalseFlagged(Contract) :
            LET with == Contract
                without == WithoutEntry(Contract, X)
            IN  /\ X \notin DOMAIN without.is_manager
                /\ SameManagers(with, without)
                /\ \A caller \in Principals, manager \in Principals :
                     /\ grant_manager(with, caller, manager).result
                          = grant_manager(without, caller, manager).result
                     /\ SameManagers(grant_manager(with, caller, manager).contract,
                                     grant_manager(without, caller, manager).contract)
                     /\ revoke_manager(with, caller, manager).result
                          = revoke_manager(without, caller, manager).result
                     /\ SameManagers(revoke_manager(with, caller, manager).contract,
                                     revoke_manager(without, caller, manager).contract)
                /\ \A caller \in Principals,
                      e \in {ErrUnauthorizedMint, ErrUnauthorizedSetBaseURI,
                             ErrUnauthorizedTransfer} :
                     is_caller_manager(with, caller, e)
                       = is_caller_manager(without, caller, e)

\* a manager has just been revoked, so that the contract maps it to false,
\* while a third identity has never been granted
C12_Witness ==
    /\ Initialized
    /\ reply.op = "revokeManager"
    /\ IsOk(reply.result)
    /\ reply.manager \in FalseFlagged(Contract)
    /\ \E p \in Principals : p \notin DOMAIN Contract.is_manager

(***************************************************************************)
(* C13: the pass-through mint, mintBatch, setBaseURI and transfer forward  *)
(* to the ledger only when the invoking caller's manager flag is true.  A  *)
(* remote call of theirs is issued only by a step taken while the contract *)
(* flags the caller true; when the contract does not, the handler answers  *)
(* at once with its Unauthorized error, issues no remote call and the      *)
(* ledger state is unchanged; and the ledger state changes only when a     *)
(* call that was issued is executed.                                       *)
(***************************************************************************)
\* the pass-through operations with a manager check, and their error names
CheckedOps == {"facade_mint", "mintBatch", "setBaseURI", "transfer"}
UnauthorizedOf(op) ==
    CASE op = "facade_mint" -> ErrUnauthorizedMint
      [] op = "mintBatch" -> ErrUnauthorizedMint
      [] op = "setBaseURI" -> ErrUnauthorizedSetBaseURI
      [] op = "transfer" -> ErrUnauthorizedTransfer
\* the calls a step issues
Issued == {c \in pending' : c.id \notin PendingIds}
\* a pass-through handler was entered and answered without suspending
AnsweredAtOnce ==
    /\ reply = NoReply
    /\ reply' # NoReply
    /\ pending' = pending
    /\ reply'.op \in CheckedOps \cup {"baseURI", "tokenURI"}

C13_ManagerOnly ==
    [][/\ \A c \in Issued :
            c.op \in CheckedOps =>
                /\ Initialized
                /\ Flag(Contract.is_manager, c.caller)
                /\ c.response = <<>>
                /\ ledgerVars' = ledgerVars
       /\ (AnsweredAtOnce /\ reply'.op \in CheckedOps /\ Initialized) =>
            /\ ~Flag(Contract.is_manager, reply'.caller)
            /\ reply'.result = Err(UnauthorizedOf(reply'.op))
            /\ Issued = {}
            /\ ledgerVars' = ledgerVars
       /\ ledgerVars' # ledgerVars =>
            \E c \in pending :
                /\ c.response = <<>>
                /\ c.op \in CheckedOps
                /\ Flag(c.contract.is_manager, c.caller)
                /\ pending' = (pending \ {c}) \cup
                     {[c EXCEPT !.response =
                         <<Ok(ledger_method(token_map, next_token_id, base_token_uri,
                                            c.method, c.args).result)>>]}]_vars

\* a revoked manager has just been refused a transfer of a token that exists
C13_Witness ==
    /\ Initialized
    /\ reply.op = "transfer"
    /\ reply.result = Err(ErrUnauthorizedTransfer)
    /\ reply.caller \in DOMAIN Contract.is_manager
    /\ ~Contract.is_manager[reply.caller]
    /\ reply.args.args[1].token_id \in DOMAIN token_map
    /\ pending = {}

(***************************************************************************)
(* C14: every pass-through (mint, mintBatch, setBaseURI, baseURI,          *)
(* tokenURI, transfer) maps the outcome of its remote call faithfully.  A  *)
(* rejected call is answered with the error "Failed to call <method>: ..." *)
(* which is no ledger error and never a success; a reply of the ledger is  *)
(* the value the method returned on the ledger state it ran on, and the    *)
(* handler returns it as it is: an Err as that Err, an Ok as that Ok, and  *)
(* the result vector of icrc7_transfer as Ok of that vector.               *)
(***************************************************************************)
LedgerErrors ==
    {ErrBaseUriNotSet, ErrNonExistentToken, ErrInsertConflict, ErrLengthMismatch,
     ErrTransferUnauthorized, ErrInvalidTransfer, ErrNonExistingTokenId}
\* the handler of the suspended call c resumes in this step
Resumed(c) ==
    /\ c.response # <<>>
    /\ pending' = pending \ {c}
    /\ reply = NoReply
    /\ reply' # NoReply
\* the outcome of the suspended call c arrives in this step
Arrives(c) ==
    /\ c.response = <<>>
    /\ \E d \in pending' : d.id = c.id /\ d.response # <<>>
ArrivedOutcome(c) == (CHOOSE d \in pending' : d.id = c.id).response[1]

C14_FaithfulOutcome ==
    [][\A c \in pending :
        /\ Arrives(c) =>
             LET out == ArrivedOutcome(c)
                 r == ledger_method(token_map, next_token_id, base_token_uri,
                                    c.method, c.args)
             IN  IF IsOk(out)
                 THEN /\ out.ok = r.result
                      /\ <<token_map', next_token_id', base_token_uri'>>
                           = <<r.map, r.next, r.uri>>
                 ELSE ledgerVars' = ledgerVars
        /\ Resumed(c) =>
             LET out == c.response[1] IN
             /\ reply'.op = c.op /\ reply'.caller = c.caller
             /\ ledgerVars' = ledgerVars
             /\ IsErr(out) =>
                  /\ IsErr(reply'.result)
                  /\ reply'.result.err
                       = "Failed to call " \o c.method \o ": " \o out.err
                  /\ reply'.result.err \notin LedgerErrors
             /\ (IsOk(out) /\ c.method # "icrc7_transfer") =>
                  /\ IsOk(out.ok) => reply'.result = Ok(out.ok.ok)
                  /\ IsErr(out.ok) =>
                       /\ reply'.result = Err(out.ok.err)
                       /\ out.ok.err \in LedgerErrors
             /\ (IsOk(out) /\ c.method = "icrc7_transfer") =>
                  reply'.result = Ok(out.ok)]_vars

\* a mint call to the ledger, which holds a token, was rejected and the
\* manager who asked for it has the RemoteCallFailed error
C14_Witness ==
    /\ reply.op = "facade_mint"
    /\ IsErr(reply.result)
    /\ \E e \in RejectDetails : reply.result.err = "Failed to call mint: " \o e
    /\ token_map # EmptyMap
    /\ next_token_id <= MaxTokens

(***************************************************************************)
(* C15: mint_batch pads names, descriptions and logos that are shorter     *)
(* than owners to len(owners) by repeating their last element (the empty   *)
(* name, the absent description or logo when the vector is empty) and then *)
(* mints one token per owner in order.  With n = next_token_id before the  *)
(* call and no vector longer than owners, the call returns                 *)
(* [n, ..., n + len(owners) - 1], token n + i has owner owners[i] and the  *)
(* i-th padded name, description and logo, the tokens that existed are     *)
(* untouched, and with owners empty it returns the empty list and changes  *)
(* nothing.                                                                *)
(***************************************************************************)
BatchStep == reply'.op = "mint_batch"
\* the i-th element of s padded with its last element, or with `default`
PaddedAt(s, i, default) ==
    IF i <= Len(s) THEN s[i]
    ELSE IF Len(s) = 0 THEN default ELSE s[Len(s)]
\* no metadata vector of the call is longer than owners
NoneLonger(a) ==
    /\ Len(a.names) <= Len(a.owners)
    /\ Len(a.descriptions) <= Len(a.owners)
    /\ Len(a.logos) <= Len(a.owners)

C15_BatchPadding ==
    [][(BatchStep /\ NoneLonger(reply'.args)) =>
        LET a == reply'.args
            n == next_token_id
            len == Len(a.owners)
        IN  /\ reply'.result = Ok([i \in 1..len |-> n + i - 1])
            /\ next_token_id' = n + len
            /\ DOMAIN token_map' = (DOMAIN token_map) \cup (n..(n + len - 1))
            /\ \A k \in DOMAIN token_map : token_map'[k] = token_map[k]
            /\ \A i \in 1..len :
                 token_map'[n + i - 1] =
                     [id |-> n + i - 1,
                      owner |-> a.owners[i],
                      name |-> PaddedAt(a.names, i, ""),
                      description |-> PaddedAt(a.descriptions, i, None),
                      logo |-> PaddedAt(a.logos, i, None)]
            /\ len = 0 => /\ reply'.result = Ok(<<>>)
                          /\ ledgerVars' = ledgerVars]_vars

\* two tokens were minted from one name, no description and one logo
C15_Witness ==
    /\ reply.op = "mint_batch"
    /\ Len(reply.args.owners) = 2
    /\ reply.args.names = <<"x">>
    /\ reply.args.descriptions = <<>>
    /\ reply.args.logos = <<"l">>
    /\ reply.result = Ok(<<1, 2>>)
    /\ token_map[2].name = "x" /\ token_map[2].logo = "l"
    /\ token_map[2].description = None

(***************************************************************************)
(* C16 as claimed: a mint_batch call in which names, descriptions or logos *)
(* is longer than owners fails with LengthMismatch and mints no token (the *)
(* ledger state is as before).                                             *)
(***************************************************************************)
C16_Original ==
    [][(BatchStep /\ ~NoneLonger(reply'.args)) =>
        /\ reply'.result = Err(ErrLengthMismatch)
        /\ ledgerVars' = ledgerVars]_vars

(***************************************************************************)
(* C19: in every ledger state reachable from initialisation through mint,  *)
(* mint_batch, icrc7_transfer and set_base_uri a mint succeeds.  No token  *)
(* is stored at or above next_token_id, so a mint with any arguments       *)
(* returns Ok(next_token_id), and no mint or mint_batch that was run       *)
(* returned the insert-conflict error.                                     *)
(***************************************************************************)
C19_MintSucceeds ==
    /\ \A k \in DOMAIN token_map : k < next_token_id
    /\ \A args \in MintArgsSet :
         mint_run(token_map, next_token_id, args).result = Ok(next_token_id)
    /\ reply.op = "mint" => IsOk(reply.result)
    /\ reply.op = "mint_batch" => reply.result # Err(ErrInsertConflict)

\* the last token the bound allows was minted after a transfer had moved
\* token 1 to a subaccount and the base URI had been set
C19_Witness ==
    /\ reply.op = "mint"
    /\ reply.result = Ok(MaxTokens)
    /\ base_token_uri # ""
    /\ token_map[1].owner = Account("p1", "s1")
    /\ token_map[1].name = "y"

(***************************************************************************)
(* C20: base_uri() fails with NotSet whenever the stored base URI is empty *)
(* and returns the stored base URI otherwise.  token_uri(id) fails with    *)
(* NonExistentToken for an id that is not stored, whatever the base URI    *)
(* is; for a stored token it returns the empty string while the base URI   *)
(* is empty and the base URI followed by the decimal numeral of the id     *)
(* once a base URI is set.                                                 *)
(***************************************************************************)
\* digit strings of one or two digits and the number they denote
Numerals == [1..1 -> 0..9] \cup [1..2 -> 0..9]
Denotes(d) == IF Len(d) = 1 THEN d[1] ELSE 10 * d[1] + d[2]
\* the decimal numeral of id: the digits that denote it, no leading zero
Numeral(id) ==
    CHOOSE d \in Numerals : Denotes(d) = id /\ (Len(d) > 1 => d[1] # 0)
\* the characters of a numeral, written out
Written(d) ==
    IF Len(d) = 1 THEN DecimalDigits[d[1] + 1]
    ELSE DecimalDigits[d[1] + 1] \o DecimalDigits[d[2] + 1]

C20_UriQueries ==
    /\ reply.op = "base_uri" =>
         /\ base_token_uri = "" => reply.result = Err(ErrBaseUriNotSet)
         /\ base_token_uri # "" => reply.result = Ok(base_token_uri)
    /\ reply.op = "token_uri" =>
         LET id == reply.args IN
         /\ id \notin DOMAIN token_map => reply.result = Err(ErrNonExistentToken)
         /\ (id \in DOMAIN token_map /\ base_token_uri = "") =>
              reply.result = Ok("")
         /\ (id \in DOMAIN token_map /\ base_token_uri # "") =>
              reply.result = Ok(base_token_uri \o Written(Numeral(id)))

\* the URI of token 10 was asked for after the base URI had been set
C20_Witness ==
    /\ reply.op = "token_uri"
    /\ reply.args = 10
    /\ base_token_uri = "https://x/"
    /\ reply.result = Ok("https://x/10")

(***************************************************************************)
(* C21: set_base_uri(uri) of the ledger is an unconditional overwrite that *)
(* always succeeds, for any uri including the empty string: it returns Ok, *)
(* the stored base URI is uri afterwards whatever it was before, and the   *)
(* token map and next_token_id are unchanged.                              *)
(***************************************************************************)
C21_SetBaseUri ==
    [][reply'.op = "set_base_uri" =>
        /\ reply'.result = Ok(<<>>)
        /\ base_token_uri' = reply'.args
        /\ token_map' = token_map
        /\ next_token_id' = next_token_id]_vars

\* the empty string has just been written over whatever was stored, on a
\* ledger that holds tokens
C21_Witness ==
    /\ reply.op = "set_base_uri"
    /\ reply.args = ""
    /\ reply.result = Ok(<<>>)
    /\ base_token_uri = ""
    /\ DOMAIN token_map = 1..MaxTokens

(***************************************************************************)
(* C22: in every reachable ledger state icrc7_balance_of returns, for each *)
(* queried account, the number of tokens whose current owner is that       *)
(* account (principal and subaccount).  A mint to A raises the balance of  *)
(* A by 1 and no other balance; a successful transfer lowers the balance   *)
(* of the old owner by 1 and raises that of the new owner by 1, a failed   *)
(* one changes no balance; and the balances of the distinct owner accounts *)
(* sum to icrc7_total_supply().                                            *)
(***************************************************************************)
\* what icrc7_balance_of answers for the one account a on the map
BalanceOf(map, a) == icrc7_balance_of_run(map, <<a>>)[1]
\* the tokens among those with ids in ids that a owns, counted one by one
RECURSIVE CountOwned(_, _, _)
CountOwned(map, ids, a) ==
    IF ids = {} THEN 0
    ELSE LET k == CHOOSE x \in ids : TRUE
         IN  (IF map[k].owner = a THEN 1 ELSE 0) + CountOwned(map, ids \ {k}, a)
\* the accounts that own a token
Owners(map) == {map[k].owner : k \in DOMAIN map}
RECURSIVE SumOfBalances(_, _)
SumOfBalances(map, as) ==
    IF as = {} THEN 0
    ELSE LET a == CHOOSE x \in as : TRUE
         IN  BalanceOf(map, a) + SumOfBalances(map, as \ {a})

C22_Balances ==
    [][/\ reply'.op = "icrc7_balance_of" =>
            /\ Len(reply'.result) = Len(reply'.args)
            /\ \A i \in 1..Len(reply'.args) :
                 reply'.result[i]
                   = CountOwned(token_map', DOMAIN token_map', reply'.args[i])
       /\ SumOfBalances(token_map', Owners(token_map')) = TotalSupply(token_map')
       /\ reply'.op = "icrc7_total_supply" =>
            reply'.result = SumOfBalances(token_map, Owners(token_map))
       /\ (reply'.op = "mint" /\ IsOk(reply'.result)) =>
            \A a \in Accounts :
                BalanceOf(token_map', a)
                  = BalanceOf(token_map, a) + (IF a = reply'.args.owner THEN 1 ELSE 0)
       /\ TransferStep =>
            \A i \in 1..Len(reply'.args), a \in Accounts :
                LET from == ElemOwner(i)
                    to == reply'.args[i].to
                IN  BalanceOf(ElemPost(i), a) =
                      IF IsErr(reply'.result[i]) THEN BalanceOf(ElemPre(i), a)
                      ELSE BalanceOf(ElemPre(i), a)
                             - (IF a = from THEN 1 ELSE 0)
                             + (IF a = to THEN 1 ELSE 0)
       /\ (~TransferStep /\ reply'.op # "mint") =>
            \A a \in Accounts : BalanceOf(token_map', a) = BalanceOf(token_map, a)]_vars

\* three tokens were minted to p1, one was transferred away to a subaccount
\* of p1, and balance_of answers 2 for p1 and 1 for the subaccount
C22_Witness ==
    /\ reply.op = "icrc7_balance_of"
    /\ reply.args = <<Account("p1", None), Account("p1", "s1")>>
    /\ reply.result = <<2, 1>>
    /\ TotalSupply(token_map) = 3
    /\ next_token_id = 4

(***************************************************************************)
(* The facade's entry points by return type                                *)
(***************************************************************************)
\* the entry points that return a Result
ResultOps ==
    {"grantManager", "revokeManager", "baseURI", "setBaseURI", "tokenURI",
     "facade_mint", "mintBatch", "transfer"}
\* the queries: get_owner returns a Principal, get_managers a Vec<Principal>
QueryOps == {"get_owner", "get_managers"}
\* a facade entry point other than init is answered in this step
FacadeAnswer ==
    /\ reply = NoReply
    /\ reply'.op \in ResultOps \cup QueryOps
\* nothing of facade or ledger is changed and no call is issued or dropped
NothingChanges ==
    /\ State' = State
    /\ pending' = pending
    /\ ledgerVars' = ledgerVars

(***************************************************************************)
(* C23 as claimed: every facade operation invoked while STATE holds no     *)
(* contract, the owner and manager queries included, returns the           *)
(* NotInitialized error, changes nothing and issues no remote call.        *)
(***************************************************************************)
C23_Original ==
    [][(~Initialized /\ FacadeAnswer) =>
        /\ reply'.op \in ResultOps
        /\ reply'.result = Err(ErrNotInitialized)
        /\ NothingChanges]_vars

(***************************************************************************)
(* C23: while STATE holds no contract, grantManager, revokeManager, mint,  *)
(* mintBatch, setBaseURI, baseURI, tokenURI and transfer return the        *)
(* NotInitialized error, get_owner returns the anonymous principal and     *)
(* get_managers the empty list; none of them changes anything, no remote   *)
(* call is issued, and only init leaves that state.                        *)
(***************************************************************************)
C23_NotInitialized ==
    [][~Initialized =>
        /\ FacadeAnswer =>
             /\ reply'.op \in ResultOps => reply'.result = Err(ErrNotInitialized)
             /\ reply'.op = "get_owner" => reply'.result = Anonymous
             /\ reply'.op = "get_managers" => reply'.result = <<>>
             /\ NothingChanges
        /\ pending' = pending
        /\ ledgerVars' = ledgerVars
        /\ State' # State => reply'.op = "init"]_vars

\* a transfer was asked for before init and refused
C23_Witness ==
    /\ ~Initialized
    /\ reply.op = "transfer"
    /\ reply.result = Err(ErrNotInitialized)
    /\ pending = {}
    /\ token_map = EmptyMap

(***************************************************************************)
(* C24: the facade's authorization state changes only through              *)
(* grant_manager and revoke_manager invoked by the owner.  Once init has   *)
(* run the contract stays, its owner never changes, and every step that    *)
(* changes the manager map is a grantManager or revokeManager called by    *)
(* the owner that returned Ok; a step of any other operation, or of any    *)
(* other caller, leaves the map as it was.                                 *)
(***************************************************************************)
C24_OwnerOnlyChanges ==
    [][Initialized =>
        /\ Initialized'
        /\ State'[1].owner = Contract.owner
        /\ State'[1].is_manager # Contract.is_manager =>
             /\ reply'.op \in {"grantManager", "revokeManager"}
             /\ reply'.caller = Contract.owner
             /\ reply'.result = Ok(<<>>)
        /\ State' # State => State'[1].is_manager # Contract.is_manager]_vars

\* a manager who is not the owner has tried to grant the manager role while
\* a call of that manager is suspended; the attempt was refused
C24_Witness ==
    /\ Initialized
    /\ reply.op = "grantManager"
    /\ reply.caller # Contract.owner
    /\ Flag(Contract.is_manager, reply.caller)
    /\ reply.result = Err(ErrUnauthorizedGrantManager)
    /\ \E c \in pending : c.caller = reply.caller

(***************************************************************************)
(* C25: a pass-through operation works on a clone of STATE taken before    *)
(* the remote call and never writes it back.  The clone of an issued call  *)
(* is the contract of that moment and is not refreshed; no step of a       *)
(* pass-through (entry, arrival of the outcome, resumption) changes STATE, *)
(* so when grantManager or revokeManager ran while the call was suspended  *)
(* STATE after the pass-through has completed is the one they produced,    *)
(* not the clone.                                                          *)
(***************************************************************************)
C25_NoWriteBack ==
    [][/\ \A c \in Issued : State' = State /\ c.contract = Contract
       /\ AnsweredAtOnce => State' = State
       /\ \A c \in pending :
            /\ Arrives(c) =>
                 /\ State' = State
                 /\ (CHOOSE d \in pending' : d.id = c.id).contract = c.contract
            /\ Resumed(c) =>
                 /\ State' = State
                 /\ c.contract # Contract => State' # Some(c.contract)]_vars

\* the owner has granted a manager while the outcome of a suspended call
\* waits for its handler, whose clone does not know that manager
C25_Witness ==
    /\ Initialized
    /\ reply.op = "grantManager"
    /\ reply.result = Ok(<<>>)
    /\ \E c \in pending :
         /\ c.response # <<>>
         /\ ~Flag(c.contract.is_manager, reply.manager)
         /\ Flag(Contract.is_manager, reply.manager)

(***************************************************************************)
(* C26: manager authorization is decided once, when the remote call is     *)
(* issued, and never again.  Every mint, mint_batch, set_base_uri and      *)
(* icrc7_transfer call in flight was issued for a caller whose flag was    *)
(* true in the contract of that moment.  When the owner has revoked that   *)
(* caller while the call is in flight, the ledger can still run the call,  *)
(* running it applies the method to the ledger state, and the handler      *)
(* still returns the outcome of the call to the revoked caller.            *)
(***************************************************************************)
\* the caller of the suspended call c is no manager any more
RevokedInFlight(c) ==
    /\ c.op \in CheckedOps
    /\ Initialized
    /\ ~Flag(Contract.is_manager, c.caller)

C26_CheckedAtIssue ==
    [][/\ \A c \in Issued :
            c.op \in CheckedOps => Flag(Contract.is_manager, c.caller)
       /\ \A c \in pending :
            /\ c.op \in CheckedOps => Flag(c.contract.is_manager, c.caller)
            /\ RevokedInFlight(c) =>
                 /\ (c.response = <<>> /\ c.canister_id = LedgerId)
                      => ENABLED LedgerExecute(c)
                 /\ (Arrives(c) /\ IsOk(ArrivedOutcome(c))) =>
                      LET r == ledger_method(token_map, next_token_id,
                                             base_token_uri, c.method, c.args)
                      IN  /\ ArrivedOutcome(c) = Ok(r.result)
                          /\ <<token_map', next_token_id', base_token_uri'>>
                               = <<r.map, r.next, r.uri>>
                 /\ Resumed(c) =>
                      /\ reply'.caller = c.caller
                      /\ reply'.result = call_match(c)]_vars

\* a manager whom the owner revoked while the mint was in flight has the id
\* of the token the ledger minted
C26_Witness ==
    /\ Initialized
    /\ reply.op = "facade_mint"
    /\ IsOk(reply.result)
    /\ reply.result.ok \in DOMAIN token_map
    /\ reply.caller \in DOMAIN Contract.is_manager
    /\ ~Contract.is_manager[reply.caller]

(***************************************************************************)
(* C27: with any number of facade mint and mintBatch calls in flight at    *)
(* the same time, in every interleaving the ledger applies each call as    *)
(* one message.  A mint returns the counter value n it found and leaves    *)
(* the counter at n + 1; a mint_batch of k owners returns n, ..., n + k - 1 *)
(* in this order and leaves the counter at n + k; nothing else moves the   *)
(* counter.  So the ids returned to different calls are pairwise distinct, *)
(* the ids returned so far are exactly 1 .. next_token_id - 1, and each    *)
(* handler passes on the ids of its own call.                              *)
(***************************************************************************)
\* the ids the ledger returned to the call c, if its answer has arrived
ReturnedIds(c) ==
    IF c.response = <<>> \/ IsErr(c.response[1]) \/ IsErr(c.response[1].ok) THEN {}
    ELSE IF c.method = "mint" THEN {c.response[1].ok.ok}
    ELSE {c.response[1].ok.ok[i] : i \in DOMAIN c.response[1].ok.ok}
MintCalls == {c \in pending : c.method \in {"mint", "mint_batch"}}

C27_AtomicMints ==
    [][/\ \A c \in MintCalls :
            /\ Arrives(c) =>
                 LET n == next_token_id
                     k == Minted(c.method, c.args)
                     out == ArrivedOutcome(c)
                 IN  /\ out = IF c.method = "mint" THEN Ok(Ok(n))
                              ELSE Ok(Ok([i \in 1..k |-> n + i - 1]))
                     /\ next_token_id' = n + k
                     /\ DOMAIN token_map' = (DOMAIN token_map) \cup (n..(n + k - 1))
                     /\ \A d \in pending \ {c} :
                          ReturnedIds(d) \cap (n..(n + k - 1)) = {}
            /\ Resumed(c) =>
                 /\ next_token_id' = next_token_id
                 /\ reply'.result = c.response[1].ok
            /\ \A d \in MintCalls \ {c} : ReturnedIds(c) \cap ReturnedIds(d) = {}
            /\ ReturnedIds(c) \subseteq 1..(next_token_id - 1)
       /\ DOMAIN token_map = 1..(next_token_id - 1)
       /\ next_token_id' # next_token_id => \E c \in MintCalls : Arrives(c)]_vars

\* three calls are in flight and answered: the mintBatch issued first was run
\* between the two mints issued after it
C27_Witness ==
    \E b, c, d \in pending :
        /\ b.id < c.id /\ c.id < d.id
        /\ b.method = "mint_batch" /\ c.method = "mint" /\ d.method = "mint"
        /\ c.response = <<Ok(Ok(1))>>
        /\ b.response = <<Ok(Ok(<<2, 3>>))>>
        /\ d.response = <<Ok(Ok(4))>>

(***************************************************************************)
(* C28: the ledger's transfer authorization depends only on the `caller`   *)
(* account argument and from_subaccount, not on the invoking party.  An    *)
(* icrc7_transfer invoked by one party returns the results and leaves the  *)
(* token map that the same arguments on the same ledger state give for     *)
(* every other invoking party; an element succeeds exactly when the token  *)
(* exists, its owner's principal is caller.owner, its owner's subaccount   *)
(* is from_subaccount and the destination is another account.  Through     *)
(* the facade a manager who passes P as the `caller` parameter of transfer *)
(* moves the tokens of P: the call the facade sends gets what P's own      *)
(* invocation would get.                                                   *)
(***************************************************************************)
\* the transfer of one element is allowed on the token map `map`
MayTransfer(map, caller, arg) ==
    /\ arg.token_id \in DOMAIN map
    /\ map[arg.token_id].owner.owner = caller.owner
    /\ map[arg.token_id].owner.subaccount = arg.from_subaccount
    /\ map[arg.token_id].owner # arg.to
\* every invoking party gets `results` and leaves `map`
SameForAll(caller, args, results, map) ==
    \A p \in Invokers :
        LET r == icrc7_transfer_invoked(p, token_map, caller, args)
        IN  r.results = results /\ r.map = map

C28_InvokerIrrelevant ==
    [][/\ (reply = NoReply /\ reply'.op = "icrc7_transfer") =>
            /\ SameForAll(reply'.caller, reply'.args, reply'.result, token_map')
            /\ IsOk(reply'.result[1])
                 <=> MayTransfer(token_map, reply'.caller, reply'.args[1])
            /\ IsOk(reply'.result[1]) =>
                 token_map'[reply'.args[1].token_id].owner = reply'.args[1].to
       /\ \A c \in pending :
            (c.method = "icrc7_transfer" /\ Arrives(c)) =>
                /\ Flag(c.contract.is_manager, c.caller)
                /\ SameForAll(c.args.caller, c.args.args,
                              ArrivedOutcome(c).ok, token_map')
                /\ MayTransfer(token_map, c.args.caller, c.args.args[1]) =>
                     /\ ArrivedOutcome(c).ok[1] = Ok(c.args.args[1].token_id)
                     /\ token_map'[c.args.args[1].token_id].owner
                          = c.args.args[1].to]_vars

\* the manager p2 has moved a token of p1 to itself through the facade by
\* passing p1 as `caller`
C28_Witness ==
    /\ reply.op = "transfer"
    /\ reply.caller = "p2"
    /\ reply.args.caller = Account("p1", None)
    /\ reply.result = Ok(<<Ok(1)>>)
    /\ token_map[1].owner = Account("p2", None)

(***************************************************************************)
(* C29: the ledger enforces neither supply_cap nor minting_auth on mint.   *)
(* Whoever invokes mint, whatever cap and minting authority init has       *)
(* stored, also with the total supply already at or above the cap, the     *)
(* mint succeeds with the id the counter held, icrc7_total_supply() is one *)
(* higher after it, and supply_cap and minting_auth are what they were.    *)
(***************************************************************************)
C29_MintUnrestricted ==
    [][(reply = NoReply /\ reply'.op = "mint") =>
        /\ reply'.result = Ok(next_token_id)
        /\ TotalSupply(token_map') = TotalSupply(token_map) + 1
        /\ icrc7_supply_cap' = icrc7_supply_cap
        /\ minting_auth' = minting_auth]_vars

\* a party other than the minting authority has minted although the supply
\* had reached the cap: the supply is above the cap
C29_Witness ==
    /\ reply.op = "mint"
    /\ IsOk(reply.result)
    /\ minting_auth # <<>>
    /\ reply.invoker # minting_auth[1].owner
    /\ icrc7_supply_cap # <<>>
    /\ TotalSupply(token_map) > icrc7_supply_cap[1]
    /\ icrc7_supply_cap[1] > 0

(***************************************************************************)
(* C30: a pass-through invocation returns exactly one result.  Entered     *)
(* without a contract or by a caller the check refuses, it returns         *)
(* NotInitialized or Unauthorized at once and leaves no call behind.  A    *)
(* call in flight ends only by the resumption of its handler, which        *)
(* happens once, after the outcome has arrived, and returns a success, a   *)
(* ledger error or RemoteCallFailed: a call that is never answered never   *)
(* returns.  While a call is unanswered other facade calls can start, and  *)
(* the answered ones can finish.  If every call in flight is eventually    *)
(* answered or rejected, every call in flight eventually returns.          *)
(***************************************************************************)
InFlight(id) == id \in PendingIds
\* the facade is between two messages and can take another call
CanStartOther ==
    /\ ENABLED LiveGrantManager
    /\ Cardinality(pending) < Cardinality(CallIds) =>
         ENABLED LiveMint /\ ENABLED LiveTokenURI
ReturnsOnce ==
    /\ AnsweredAtOnce =>
         /\ Issued = {}
         /\ IF Initialized
            THEN reply'.result = Err(UnauthorizedOf(reply'.op))
            ELSE reply'.result = Err(ErrNotInitialized)
    /\ \A c \in pending :
         /\ c.id \notin {d.id : d \in pending'} =>
              /\ Resumed(c)
              /\ c.response # <<>>
              /\ reply'.op = c.op /\ reply'.caller = c.caller
              /\ \/ IsOk(reply'.result)
                 \/ reply'.result.err \in LedgerErrors
                 \/ \E e \in RejectDetails :
                      reply'.result.err = "Failed to call " \o c.method \o ": " \o e
         /\ c.response = <<>> =>
              /\ \E d \in pending' : d.id = c.id
              /\ ~Resumed(c)
              /\ Idle => CanStartOther
              /\ \A d \in pending \ {c} : (Idle /\ d.response # <<>>) => ENABLED Resume(d)

C30_Returns ==
    /\ [][ReturnsOnce]_vars
    /\ (\A id \in CallIds : WF_vars(Resolve(id)))
         => \A id \in CallIds : InFlight(id) ~> ~InFlight(id)

\* a mint whose call was rejected has returned while an earlier call is still
\* unanswered
C30_Witness ==
    /\ reply.op = "facade_mint"
    /\ IsErr(reply.result)
    /\ \E e \in RejectDetails : reply.result.err = "Failed to call mint: " \o e
    /\ \E c \in pending : c.response = <<>> /\ c.id < Cardinality(pending) + 1
====
